---- MODULE Spec2Model ----
(***************************************************************************)
(* A model of the symbolserver core: the memdb reader (src/src/memdb/      *)
(* read.rs), the memdb writer it reads from (section 4.D of the            *)
(* specification), and the SDK descriptor (src/src/sdk.rs).                *)
(*                                                                         *)
(* A memdb file is modelled as a sequence of cells.  A cell holds one      *)
(* field of a packed record (or one byte of a string), so the record       *)
(* sizes below are counted in cells; offsets, lengths and counts in the    *)
(* file are cell offsets, exactly as the code's are byte offsets.          *)
(***************************************************************************)
EXTENDS Integers, Sequences, FiniteSets, TLC

(***************************************************************************)
(* Characters.  Strings are sequences of character codes: 0 is NUL, 1..16  *)
(* are the lower-case hex digits '0'..'f' (code = value + 1), 21..26 the   *)
(* upper-case 'A'..'F', the rest are named below; a code of 128 or more is *)
(* a byte that is not valid UTF-8 on its own.                              *)
(***************************************************************************)
Ch ==
    [nul |-> 0, colon |-> 17, u |-> 18, n |-> 19, x |-> 20, slash |-> 27,
     s |-> 28, t |-> 29, bad |-> 255]

IsHex(c) == c \in 1..16 \/ c \in 21..26

HexVal(c) == IF c \in 1..16 THEN c - 1 ELSE c - 11

(* Option<T>: None is the empty sequence, Some(x) the one-element one. *)
None == <<>>

Some(x) == <<x>>

(* Result<T>, and the two ways a call can end without returning: *)
(* a panic, and a read of unmapped memory.                       *)
Ok(v) == [tag |-> "Ok", val |-> v]

Err(kind) == [tag |-> kind, val |-> <<>>]

IsOk(r) == r.tag = "Ok"

(* let x = v; body(x) -- v is evaluated once *)
Let(v, body(_)) == CHOOSE out \in {body(x) : x \in {v}} : TRUE

(* let x = r?; k(x) -- anything but Ok ends the caller with it *)
Try(r, k(_)) == Let(r, LAMBDA x : IF IsOk(x) THEN k(x.val) ELSE x)

(* Uuid::to_string: the hex digits of the raw bytes, most significant    *)
(* first, in lower case.  A UUID is scaled to one byte: two hex digits.  *)
uuid_to_string(uuid) == <<(uuid \div 16) + 1, (uuid % 16) + 1>>

(* "urn:uuid:", scaled to "u:" *)
UrnPrefix == <<Ch.u, Ch.colon>>

(* str::parse::<Uuid>: the hex digits, in either case, with the optional *)
(* urn prefix.  None when the string is no UUID.                         *)
parse_uuid(str) ==
    Let(IF Len(str) >= 2 /\ SubSeq(str, 1, 2) = UrnPrefix
        THEN SubSeq(str, 3, Len(str)) ELSE str,
        LAMBDA body :
            IF Len(body) = 2 /\ IsHex(body[1]) /\ IsHex(body[2])
            THEN Some(16 * HexVal(body[1]) + HexVal(body[2]))
            ELSE None)

(* std::str::from_utf8 on the model's alphabet: ASCII is valid, a lone  *)
(* high byte is not.                                                    *)
from_utf8_ok(bytes) == \A i \in 1..Len(bytes) : bytes[i] < 128

(***************************************************************************)
(* Record layouts (section 4.F), in cells.                                 *)
(***************************************************************************)
HeaderSize == 12

IndexedUuidSize == 2

StoredSliceSize == 3

IndexItemSize == 3

(* usize arithmetic *)
UsizeModulus == 2 ^ 16

wrapping_add(a, b) == (a + b) % UsizeModulus

wrapping_mul(a, b) == (a * b) % UsizeModulus

(***************************************************************************)
(* Backing.  A backing is the buffer and what the process has mapped       *)
(* right behind it: `beyond` is the memory a read past the buffer's end    *)
(* finds before it reaches an unmapped page.                               *)
(***************************************************************************)
Unmapped == 0 - 1

Cell(backing, off) ==
    IF off < Len(backing.buf) THEN backing.buf[off + 1]
    ELSE IF off < Len(backing.buf) + Len(backing.beyond)
         THEN backing.beyond[off - Len(backing.buf) + 1]
         ELSE Unmapped

get_data(backing, start, len) ==
    Let(wrapping_add(start, len),
        LAMBDA end : IF end < start \/ end > Len(backing.buf)
                     THEN Err("BadMemDb")
                     ELSE Ok([ptr |-> start, len |-> len]))

(* The bytes of a view returned by get_data *)
Bytes(backing, data) == [i \in 1..data.len |-> Cell(backing, data.ptr + i - 1)]

get_slice(backing, offset, count, size) ==
    Try(get_data(backing, offset, wrapping_mul(count, size)),
        LAMBDA data : Ok([ptr |-> data.ptr, len |-> count]))

(* get_slice as a build with overflow checks runs it: `count * size` *)
(* panics when the product does not fit a usize                     *)
get_slice_overflow_checks(backing, offset, count, size) ==
    IF count * size >= UsizeModulus THEN Err("Panic")
    ELSE get_slice(backing, offset, count, size)

header(backing) ==
    Try(get_data(backing, 0, HeaderSize),
        LAMBDA data :
            Let([i \in 1..HeaderSize |-> Cell(backing, data.ptr + i - 1)],
                LAMBDA f :
                    Ok([version |-> f[1], sdk_info |-> f[2],
                        uuids_start |-> f[3], uuids_count |-> f[4],
                        variants_start |-> f[5], variants_count |-> f[6],
                        symbols_start |-> f[7], symbols_count |-> f[8],
                        object_names_start |-> f[9],
                        object_names_count |-> f[10],
                        tagged_object_names_start |-> f[11],
                        tagged_object_names_end |-> f[12]])))

(* The typed records of memdb/types.rs, read at a cell offset *)
IndexedUuidAt(backing, off) ==
    [uuid |-> Cell(backing, off), idx |-> Cell(backing, off + 1)]

StoredSliceAt(backing, off) ==
    [offset |-> Cell(backing, off), len |-> Cell(backing, off + 1),
     is_compressed |-> Cell(backing, off + 2) # 0]

IndexItemAt(backing, off) ==
    [addr |-> Cell(backing, off), sym_id |-> Cell(backing, off + 1),
     src_id |-> Cell(backing, off + 2)]

(* utils::binsearch_by_key over a slice whose elements are `size` cells  *)
(* wide and whose key is the first cell: the position of an element with *)
(* exactly that key, or None.                                            *)
RECURSIVE binsearch_loop(_, _, _, _, _, _)
binsearch_loop(backing, slice, size, key, low, high) ==
    IF low >= high THEN None
    ELSE Let((low + high) \div 2, LAMBDA mid :
         Let(Cell(backing, slice.ptr + mid * size), LAMBDA cur :
         IF cur = key THEN Some(mid)
         ELSE IF cur < key
              THEN binsearch_loop(backing, slice, size, key, mid + 1, high)
              ELSE binsearch_loop(backing, slice, size, key, low, mid)))

binsearch_by_key(backing, slice, size, key) ==
    binsearch_loop(backing, slice, size, key, 0, slice.len)

(***************************************************************************)
(* The reader: impl MemDb.                                                 *)
(***************************************************************************)
(* load_memdb without the version check *)
load_memdb_any_version(backing) ==
    Try(header(backing),
        LAMBDA head : Ok([backing |-> backing, info |-> head.sdk_info]))

load_memdb(backing) ==
    Try(header(backing),
        LAMBDA head :
            IF head.version # 1 THEN Err("UnsupportedMemDbVersion")
            ELSE Ok([backing |-> backing, info |-> head.sdk_info]))

uuids(backing) ==
    Try(header(backing),
        LAMBDA head : get_slice(backing, head.uuids_start, head.uuids_count,
                                IndexedUuidSize))

variants(backing) ==
    Try(header(backing),
        LAMBDA head : get_slice(backing, head.variants_start,
                                head.variants_count, StoredSliceSize))

symbols(backing) ==
    Try(header(backing),
        LAMBDA head : get_slice(backing, head.symbols_start,
                                head.symbols_count, StoredSliceSize))

object_names(backing) ==
    Try(header(backing),
        LAMBDA head : get_slice(backing, head.object_names_start,
                                head.object_names_count, StoredSliceSize))

(* slice[i]: a panic when i is out of the slice's bounds, else the *)
(* offset of the element                                           *)
ElemAt(slice, size, i) ==
    IF i >= slice.len THEN Err("Panic") ELSE Ok(slice.ptr + i * size)

(* CStr::from_ptr: the offset of the first NUL at or after `off`, or *)
(* Unmapped when the scan runs into an unmapped page first.          *)
RECURSIVE cstr_end(_, _)
cstr_end(backing, off) ==
    Let(Cell(backing, off),
        LAMBDA c : IF c = Unmapped THEN Unmapped
                   ELSE IF c = Ch.nul THEN off
                   ELSE cstr_end(backing, off + 1))

get_cstr(backing, offset) ==
    Let(cstr_end(backing, offset),
        LAMBDA end :
            IF end = Unmapped THEN Err("Segv")
            ELSE Let(Bytes(backing, [ptr |-> offset, len |-> end - offset]),
                     LAMBDA bytes : IF from_utf8_ok(bytes) THEN Ok(bytes)
                                    ELSE Err("BadMemDb")))

get_string(backing, slice) ==
    Try(get_data(backing, slice.offset, slice.len),
        LAMBDA data :
            IF slice.is_compressed THEN Err("Panic")
            ELSE Let(Bytes(backing, data),
                     LAMBDA bytes : IF from_utf8_ok(bytes) THEN Ok(bytes)
                                    ELSE Err("BadMemDb")))

get_object_name(backing, src_id) ==
    Try(object_names(backing), LAMBDA tab :
    Try(ElemAt(tab, StoredSliceSize, src_id), LAMBDA at :
    get_string(backing, StoredSliceAt(backing, at))))

get_symbol(backing, sym_id) ==
    Try(symbols(backing), LAMBDA tab :
    Try(ElemAt(tab, StoredSliceSize, sym_id), LAMBDA at :
    get_string(backing, StoredSliceAt(backing, at))))

(* index_item_to_symbol resolving the symbol id in the object-name table *)
index_item_to_symbol_from_names(backing, ii, uuid) ==
    Try(get_object_name(backing, ii.src_id), LAMBDA object_name :
    Try(get_object_name(backing, ii.sym_id), LAMBDA symbol :
    Ok([object_uuid |-> uuid, object_name |-> object_name,
        symbol |-> symbol, addr |-> ii.addr])))

index_item_to_symbol(backing, ii, uuid) ==
    Try(get_object_name(backing, ii.src_id), LAMBDA object_name :
    Try(get_symbol(backing, ii.sym_id), LAMBDA symbol :
    Ok([object_uuid |-> uuid, object_name |-> object_name,
        symbol |-> symbol, addr |-> ii.addr])))

(* get_index taking the variant at the UUID's position in the UUID table *)
(* instead of the variant the entry names                               *)
get_index_by_position(backing, uuid) ==
    Try(uuids(backing), LAMBDA tab :
    Let(binsearch_by_key(backing, tab, IndexedUuidSize, uuid), LAMBDA found :
    IF found = None THEN Ok(None)
    ELSE
    Try(variants(backing), LAMBDA vars :
    Try(ElemAt(vars, StoredSliceSize, found[1]), LAMBDA at :
    Let(StoredSliceAt(backing, at), LAMBDA variant_slice :
    Try(get_data(backing, variant_slice.offset, variant_slice.len),
        LAMBDA data :
    Ok(Some([ptr |-> data.ptr,
             len |-> variant_slice.len \div IndexItemSize]))))))))

(* The index slice of the variant the UUID table names for `uuid` *)
get_index(backing, uuid) ==
    Try(uuids(backing), LAMBDA tab :
    Let(binsearch_by_key(backing, tab, IndexedUuidSize, uuid), LAMBDA found :
    IF found = None THEN Ok(None)
    ELSE
    Let(IndexedUuidAt(backing, tab.ptr + found[1] * IndexedUuidSize),
        LAMBDA iuuid :
    Try(variants(backing), LAMBDA vars :
    Try(ElemAt(vars, StoredSliceSize, iuuid.idx), LAMBDA at :
    Let(StoredSliceAt(backing, at), LAMBDA variant_slice :
    Try(get_data(backing, variant_slice.offset, variant_slice.len),
        LAMBDA data :
    Ok(Some([ptr |-> data.ptr,
             len |-> variant_slice.len \div IndexItemSize])))))))))

lookup_impl(backing, uuid, addr) ==
    Try(get_index(backing, uuid), LAMBDA index :
    IF index = None THEN Ok(None)
    ELSE
    Let(binsearch_by_key(backing, index[1], IndexItemSize, addr),
        LAMBDA found :
    IF found = None THEN Ok(None)
    ELSE
    Try(index_item_to_symbol(backing,
            IndexItemAt(backing, index[1].ptr + found[1] * IndexItemSize),
            uuid),
        LAMBDA sym : Ok(Some(sym)))))

(* Result::ok().and_then(|x| x): an error becomes None; a panic or a *)
(* fault is no return value and stays what it is.                    *)
ok_and_then(r) ==
    Let(r, LAMBDA x : IF IsOk(x) \/ x.tag \in {"Panic", "Segv"} THEN x
                      ELSE Ok(None))

lookup_by_uuid(backing, uuid, addr) ==
    ok_and_then(lookup_impl(backing, uuid, addr))

(* The scan of find_uuid without the count of the entries passed *)
RECURSIVE find_uuid_loop_uncounted(_, _, _, _, _)
find_uuid_loop_uncounted(backing, head, refstr, offset, uuid_idx) ==
    IF offset >= head.tagged_object_names_end THEN Ok(None)
    ELSE
    Try(get_cstr(backing, offset), LAMBDA str :
    IF str = refstr
    THEN Try(uuids(backing), LAMBDA tab :
         Try(ElemAt(tab, IndexedUuidSize, uuid_idx), LAMBDA at :
         Ok(Some(IndexedUuidAt(backing, at).uuid))))
    ELSE find_uuid_loop_uncounted(backing, head, refstr,
                                  offset + Len(str) + 1, uuid_idx))

RECURSIVE find_uuid_loop(_, _, _, _, _)
find_uuid_loop(backing, head, refstr, offset, uuid_idx) ==
    IF offset >= head.tagged_object_names_end THEN Ok(None)
    ELSE
    Try(get_cstr(backing, offset), LAMBDA str :
    IF str = refstr
    THEN Try(uuids(backing), LAMBDA tab :
         Try(ElemAt(tab, IndexedUuidSize, uuid_idx), LAMBDA at :
         Ok(Some(IndexedUuidAt(backing, at).uuid))))
    ELSE find_uuid_loop(backing, head, refstr, offset + Len(str) + 1,
                        uuid_idx + 1))

(* find_uuid looking for "arch:name" *)
find_uuid_arch_first(backing, object_name, arch) ==
    Try(header(backing), LAMBDA head :
    find_uuid_loop(backing, head, arch \o <<Ch.colon>> \o object_name,
                   head.tagged_object_names_start, 0))

find_uuid(backing, object_name, arch) ==
    Try(header(backing), LAMBDA head :
    find_uuid_loop(backing, head, object_name \o <<Ch.colon>> \o arch,
                   head.tagged_object_names_start, 0))

lookup_by_object_name(backing, object_name, arch, addr) ==
    Let(find_uuid(backing, object_name, arch), LAMBDA uuid :
    IF uuid.tag \in {"Panic", "Segv"} THEN uuid
    ELSE IF IsOk(uuid) /\ uuid.val # None
         THEN ok_and_then(lookup_impl(backing, uuid.val[1], addr))
         ELSE Ok(None))

(* str::rsplitn(2, ':'): the position of the last ':' (0 when none) *)
LastColon(str) ==
    Let({i \in 1..Len(str) : str[i] = Ch.colon},
        LAMBDA at : IF at = {} THEN 0
                    ELSE CHOOSE i \in at : \A j \in at : j <= i)

(* find_uuid_fuzzy that scans the tagged names when the parsed UUID is *)
(* not in the table                                                  *)
find_uuid_fuzzy_with_fallback(backing, name_or_uuid) ==
    Let(LastColon(name_or_uuid), LAMBDA cut :
    Let(IF cut = 0 THEN Ok(None)
        ELSE find_uuid(backing, SubSeq(name_or_uuid, 1, cut - 1),
                       SubSeq(name_or_uuid, cut + 1, Len(name_or_uuid))),
        LAMBDA scanned :
    Let(parse_uuid(name_or_uuid), LAMBDA parsed_uuid :
    IF parsed_uuid # None
    THEN Try(uuids(backing), LAMBDA tab :
         Let(binsearch_by_key(backing, tab, IndexedUuidSize, parsed_uuid[1]),
             LAMBDA found :
         IF found # None
         THEN Ok(Some(IndexedUuidAt(backing,
                          tab.ptr + found[1] * IndexedUuidSize).uuid))
         ELSE scanned))
    ELSE scanned)))

find_uuid_fuzzy(backing, name_or_uuid) ==
    Let(parse_uuid(name_or_uuid), LAMBDA parsed_uuid :
    IF parsed_uuid # None
    THEN Try(uuids(backing), LAMBDA tab :
         Let(binsearch_by_key(backing, tab, IndexedUuidSize, parsed_uuid[1]),
             LAMBDA found :
         IF found # None
         THEN Ok(Some(IndexedUuidAt(backing,
                          tab.ptr + found[1] * IndexedUuidSize).uuid))
         ELSE Ok(None)))
    ELSE Let(LastColon(name_or_uuid), LAMBDA cut :
         IF cut = 0 THEN Ok(None)
         ELSE find_uuid(backing, SubSeq(name_or_uuid, 1, cut - 1),
                        SubSeq(name_or_uuid, cut + 1, Len(name_or_uuid)))))

(***************************************************************************)
(* The writer (section 4.D).  Its input is the walker's stream, flattened  *)
(* to one record per variant:                                              *)
(*   [name |-> logical name of the object, arch |-> architecture name,     *)
(*    uuid |-> None or Some(uuid), syms |-> <<[addr, name], ...>>]         *)
(***************************************************************************)
RECURSIVE Flatten(_)
Flatten(seqs) ==
    IF seqs = <<>> THEN <<>> ELSE Head(seqs) \o Flatten(Tail(seqs))

Contains(seq, x) == \E i \in 1..Len(seq) : seq[i] = x

(* An interner: the distinct elements in order of first insertion; *)
(* the id of an element is its 0-based position.                   *)
RECURSIVE InternInto(_, _)
InternInto(table, seq) ==
    IF seq = <<>> THEN table
    ELSE InternInto(IF Contains(table, Head(seq)) THEN table
                    ELSE Append(table, Head(seq)),
                    Tail(seq))

Intern(seq) == InternInto(<<>>, seq)

IdOf(table, x) == (CHOOSE i \in 1..Len(table) : table[i] = x) - 1

(* The largest address the packed address field of an index item holds *)
(* (40 bits in the file format; scaled).                               *)
AddrFieldMax == 250

Indexed(stream) == SelectSeq(stream, LAMBDA v : v.uuid # None)

SymbolTable(indexed) ==
    Intern(Flatten([i \in 1..Len(indexed) |->
        [j \in 1..Len(indexed[i].syms) |-> indexed[i].syms[j].name]]))

ObjectNameTable(indexed) ==
    Intern([i \in 1..Len(indexed) |-> indexed[i].name])

(* The UUIDs in order of first appearance: the variant table's order *)
VariantOrder(indexed) ==
    Intern([i \in 1..Len(indexed) |-> indexed[i].uuid[1]])

(* Step 2: the (address, symbol-id, object-name-id) triples of a UUID, *)
(* in the order the walker emitted them.                               *)
Collected(indexed, syms, objs, uuid) ==
    Let(SelectSeq(indexed, LAMBDA v : v.uuid[1] = uuid), LAMBDA mine :
    Flatten([i \in 1..Len(mine) |->
        [j \in 1..Len(mine[i].syms) |->
            [addr |-> mine[i].syms[j].addr,
             sym_id |-> IdOf(syms, mine[i].syms[j].name),
             src_id |-> IdOf(objs, mine[i].name)]]]))

(* Step 3: of the items with one address, the first encountered is kept *)
RECURSIVE DedupOnAddr(_, _)
DedupOnAddr(kept, items) ==
    IF items = <<>> THEN kept
    ELSE DedupOnAddr(IF \E i \in 1..Len(kept) : kept[i].addr = Head(items).addr
                     THEN kept ELSE Append(kept, Head(items)),
                     Tail(items))

(* Step 4: ascending in the key (the keys are distinct) *)
RECURSIVE SortBy(_, _)
SortBy(set, field) ==
    IF set = {} THEN <<>>
    ELSE Let(CHOOSE e \in set : \A o \in set : e[field] <= o[field],
             LAMBDA least : <<least>> \o SortBy(set \ {least}, field))

Range(seq) == {seq[i] : i \in 1..Len(seq)}

IndexItems(indexed, syms, objs, uuid) ==
    SortBy(Range(DedupOnAddr(<<>>, Collected(indexed, syms, objs, uuid))),
           "addr")

(* Step 5: the UUID table, sorted by the raw UUID bytes *)
UuidTable(order) ==
    SortBy({[uuid |-> order[i], idx |-> i - 1] : i \in 1..Len(order)}, "uuid")

(* The tagged name of a UUID; of several variants with one UUID the *)
(* last wins.                                                       *)
TaggedName(indexed, uuid) ==
    Let(SelectSeq(indexed, LAMBDA v : v.uuid[1] = uuid), LAMBDA mine :
    mine[Len(mine)].name \o <<Ch.colon>> \o mine[Len(mine)].arch)

(* The descriptors of strings laid out one after the other from `base` *)
RECURSIVE SumLen(_, _)
SumLen(strs, n) == IF n = 0 THEN 0 ELSE Len(strs[n]) + SumLen(strs, n - 1)

SliceDescriptors(strs, base) ==
    Flatten([i \in 1..Len(strs) |->
        <<base + SumLen(strs, i - 1), Len(strs[i]), 0>>])

SdkInfoCell == 7

(* Step 6: the sections, in the order they are emitted *)
Sections(stream) ==
    Let(Indexed(stream), LAMBDA indexed :
    Let(SymbolTable(indexed), LAMBDA syms :
    Let(ObjectNameTable(indexed), LAMBDA objs :
    Let(VariantOrder(indexed), LAMBDA order :
    Let(UuidTable(order), LAMBDA tab :
    Let([i \in 1..Len(order) |-> IndexItems(indexed, syms, objs, order[i])],
        LAMBDA items :
    [uuids |-> Flatten([i \in 1..Len(tab) |-> <<tab[i].uuid, tab[i].idx>>]),
     variants |-> [i \in 1..Len(order) |->
                      [offset |-> IndexItemSize * SumLen(items, i - 1),
                       len |-> IndexItemSize * Len(items[i])]],
     items |-> Flatten([i \in 1..Len(order) |->
                   Flatten([j \in 1..Len(items[i]) |->
                       <<items[i][j].addr, items[i][j].sym_id,
                         items[i][j].src_id>>])]),
     symbols |-> syms,
     object_names |-> objs,
     tagged |-> Flatten([i \in 1..Len(tab) |->
                    TaggedName(indexed, tab[i].uuid) \o <<Ch.nul>>])]))))))

(* ... and the file: the header with the offsets, then the sections *)
Layout(sec) ==
    Let(HeaderSize + Len(sec.uuids), LAMBDA variants_start :
    Let(variants_start + StoredSliceSize * Len(sec.variants),
        LAMBDA items_start :
    Let(items_start + Len(sec.items), LAMBDA symbols_start :
    Let(symbols_start + StoredSliceSize * Len(sec.symbols),
        LAMBDA symbols_blob :
    Let(symbols_blob + Len(Flatten(sec.symbols)),
        LAMBDA object_names_start :
    Let(object_names_start + StoredSliceSize * Len(sec.object_names),
        LAMBDA object_names_blob :
    Let(object_names_blob + Len(Flatten(sec.object_names)),
        LAMBDA tagged_start :
    <<1, SdkInfoCell, HeaderSize, Len(sec.variants), variants_start,
      Len(sec.variants), symbols_start, Len(sec.symbols),
      object_names_start, Len(sec.object_names),
      tagged_start, tagged_start + Len(sec.tagged)>>
    \o sec.uuids
    \o Flatten([i \in 1..Len(sec.variants) |->
           <<items_start + sec.variants[i].offset, sec.variants[i].len, 0>>])
    \o sec.items
    \o SliceDescriptors(sec.symbols, symbols_blob)
    \o Flatten(sec.symbols)
    \o SliceDescriptors(sec.object_names, object_names_blob)
    \o Flatten(sec.object_names)
    \o sec.tagged)))))))

Serialize(stream) == Layout(Sections(stream))

(* Step 2: an address that overflows the address field is rejected *)
Writer(stream) ==
    IF \E i \in 1..Len(stream) : \E j \in 1..Len(stream[i].syms) :
           stream[i].uuid # None /\ stream[i].syms[j].addr > AddrFieldMax
    THEN Err("AddressOverflow")
    ELSE Ok(Serialize(stream))

(* MemDb::iter_symbols and SymbolIter::next.  An iterator is the UUID, *)
(* the index slice and the position.                                   *)
iter_symbols(backing, uuid) ==
    Try(get_index(backing, uuid), LAMBDA index :
    Ok([uuid |-> uuid,
        index |-> IF index = None THEN [ptr |-> 0, len |-> 0] ELSE index[1],
        pos |-> 0]))

(* The item next() yields (None at the end), and the iterator after it *)
symbol_iter_next(backing, it) ==
    IF it.pos < it.index.len
    THEN [item |-> Some(index_item_to_symbol(backing,
                       IndexItemAt(backing,
                                   it.index.ptr + it.pos * IndexItemSize),
                       it.uuid)),
          iter |-> [it EXCEPT !.pos = it.pos + 1]]
    ELSE [item |-> None, iter |-> it]

(***************************************************************************)
(* The SDK descriptor (sdk.rs).  A path is its parent folder's name (None  *)
(* when there is none) and its file name, a sequence of characters.        *)
(***************************************************************************)
get_sdk_name_from_folder(folder) ==
    CASE folder = "iOS DeviceSupport" -> Some("iOS")
      [] folder = "tvOS DeviceSupport" -> Some("tvOS")
      [] OTHER -> None

AsciiDigits == <<"0", "1", "2", "3", "4", "5", "6", "7", "8", "9">>

AsciiDigit == Range(AsciiDigits)

DigitValue(c) == (CHOOSE i \in 1..10 : AsciiDigits[i] = c) - 1

(* \d of the regex crate is the Unicode class Nd: it also holds digits *)
(* that are not ASCII, such as U+0663 ARABIC-INDIC DIGIT THREE         *)
UnicodeDigit == AsciiDigit \cup {"U+0663"}

(* \s *)
Whitespace == {" ", "\t"}

(* [a-zA-Z0-9] *)
Alnum ==
    AsciiDigit \cup {
        "a", "b", "c", "d", "e", "f", "g", "h", "i", "j", "k", "l", "m", "n",
         "o", "p", "q", "r", "s", "t", "u", "v", "w", "x", "y", "z",
        "A", "B", "C", "D", "E", "F", "G", "H", "I", "J", "K", "L", "M", "N",
         "O", "P", "Q", "R", "S", "T", "U", "V", "W", "X", "Y", "Z"}

(* The end (exclusive) of the longest run of `class` in str from `from` *)
SpanEnd(str, from, class) ==
    CHOOSE j \in from..(Len(str) + 1) :
        /\ \A i \in from..(j - 1) : str[i] \in class
        /\ j = Len(str) + 1 \/ str[j] \notin class

Lit(str, at, lit) ==
    /\ at + Len(lit) - 1 <= Len(str)
    /\ SubSeq(str, at, at + Len(lit) - 1) = lit

(* SDK_FILENAME_RE.captures(filename):                                     *)
(*   ^(\d+)\.(\d+)(?:\.(\d+))?\s+\(([a-zA-Z0-9]+)\)(?:\.zip)?$             *)
(* None, or the groups 1 to 4 (group 3 an Option)                          *)
captures(f) ==
    Let(SpanEnd(f, 1, UnicodeDigit), LAMBDA e1 :
    IF e1 = 1 \/ ~Lit(f, e1, <<".">>) THEN None
    ELSE
    Let(SpanEnd(f, e1 + 1, UnicodeDigit), LAMBDA e2 :
    IF e2 = e1 + 1 THEN None
    ELSE
    Let(IF Lit(f, e2, <<".">>) THEN SpanEnd(f, e2 + 1, UnicodeDigit) ELSE e2,
        LAMBDA p3 :
    Let(IF p3 > e2 + 1 THEN p3 ELSE e2, LAMBDA e3 :
    Let(SpanEnd(f, e3, Whitespace), LAMBDA e4 :
    IF e4 = e3 \/ ~Lit(f, e4, <<"(">>) THEN None
    ELSE
    Let(SpanEnd(f, e4 + 1, Alnum), LAMBDA e5 :
    IF e5 = e4 + 1 \/ ~Lit(f, e5, <<")">>) THEN None
    ELSE
    Let(IF Lit(f, e5 + 1, <<".", "z", "i", "p">>) THEN e5 + 5 ELSE e5 + 1,
        LAMBDA e6 :
    IF e6 # Len(f) + 1 THEN None
    ELSE Some([g1 |-> SubSeq(f, 1, e1 - 1),
               g2 |-> SubSeq(f, e1 + 1, e2 - 1),
               g3 |-> IF e3 > e2 THEN Some(SubSeq(f, e2 + 1, e3 - 1))
                      ELSE None,
               g4 |-> SubSeq(f, e4 + 1, e5 - 1)]))))))))

(* u32::MAX = 4294967295 = 10 * U32MaxDiv10 + U32MaxMod10 *)
U32MaxDiv10 == 429496729

U32MaxMod10 == 5

(* str::parse::<u32>: ASCII digits only, and the value must fit *)
RECURSIVE parse_u32_from(_, _)
parse_u32_from(acc, digits) ==
    IF digits = <<>> THEN Some(acc)
    ELSE IF Head(digits) \notin AsciiDigit THEN None
    ELSE IF \/ acc > U32MaxDiv10
            \/ acc = U32MaxDiv10 /\ DigitValue(Head(digits)) > U32MaxMod10
         THEN None
    ELSE parse_u32_from(10 * acc + DigitValue(Head(digits)), Tail(digits))

parse_u32(str) == IF str = <<>> THEN None ELSE parse_u32_from(0, str)

(* try_opt!: None returns None from the function *)
TryOpt(o, k(_)) == Let(o, LAMBDA x : IF x = None THEN None ELSE k(x[1]))

(* from_path with the minor version taken for the patch level *)
from_path_patch_is_minor(path) ==
    TryOpt(path.parent, LAMBDA folder :
    TryOpt(captures(path.file_name), LAMBDA caps :
    TryOpt(get_sdk_name_from_folder(folder), LAMBDA name :
    TryOpt(parse_u32(caps.g1), LAMBDA version_major :
    TryOpt(parse_u32(caps.g2), LAMBDA version_minor :
    TryOpt(parse_u32(IF caps.g3 = None THEN caps.g2 ELSE caps.g3[1]),
           LAMBDA version_patchlevel :
    Some([name |-> name, version_major |-> version_major,
          version_minor |-> version_minor,
          version_patchlevel |-> version_patchlevel,
          build |-> caps.g4, flavour |-> None])))))))

(* SdkInfo::from_path *)
from_path(path) ==
    TryOpt(path.parent, LAMBDA folder :
    TryOpt(captures(path.file_name), LAMBDA caps :
    TryOpt(get_sdk_name_from_folder(folder), LAMBDA name :
    TryOpt(parse_u32(caps.g1), LAMBDA version_major :
    TryOpt(parse_u32(caps.g2), LAMBDA version_minor :
    TryOpt(parse_u32(IF caps.g3 = None THEN <<"0">> ELSE caps.g3[1]),
           LAMBDA version_patchlevel :
    Some([name |-> name, version_major |-> version_major,
          version_minor |-> version_minor,
          version_patchlevel |-> version_patchlevel,
          build |-> caps.g4, flavour |-> None])))))))

(* SdkProcessor::new that takes a descriptor of its own making when the *)
(* path gives none                                                       *)
SdkProcessor_new_lenient(path) ==
    Let(from_path(path), LAMBDA sdk_info :
    IF sdk_info = None
    THEN Ok([path |-> path,
             info |-> [name |-> "", version_major |-> 0, version_minor |-> 0,
                       version_patchlevel |-> 0, build |-> <<>>,
                       flavour |-> None]])
    ELSE Ok([path |-> path, info |-> sdk_info[1]]))

(* SdkProcessor::new: it looks at the path's text only *)
SdkProcessor_new(path) ==
    Let(from_path(path), LAMBDA sdk_info :
    IF sdk_info = None THEN Err("UnknownSdk")
    ELSE Ok([path |-> path, info |-> sdk_info[1]]))

(***************************************************************************)
(* The bundle walker (sdk.rs).  What lies at the SDK's path is a node:     *)
(* nothing, a regular file (a zip archive or not) or a directory; the      *)
(* members of an archive and the entries of a directory walk are records   *)
(* [name |-> path, body |-> what reading and parsing the entry gives]:     *)
(*   "corrupt"     archive.by_index fails for the member                   *)
(*   "unreadable"  read_to_end (archive) or the memory map (directory)     *)
(*                 fails                                                   *)
(*   "walkerr"     the directory walk yields an error for the entry        *)
(*   "nometa"      the entry's metadata cannot be read                     *)
(*   "dir"         a directory                                             *)
(*   "empty"       a file of no bytes                                      *)
(*   "macho"       bytes OFile::parse accepts                              *)
(*   "notmacho"    bytes OFile::parse rejects with a load error            *)
(*   "malformed"   bytes OFile::parse rejects with another error           *)
(* A path is a sequence of tokens; "/" separates its components.           *)
(***************************************************************************)
(* The file-system operations ObjectIterSource::from_path makes *)
from_path_fs_ops(node) ==
    IF node.kind = "missing" THEN <<"metadata">>
    ELSE IF node.kind = "file" THEN <<"metadata", "open", "read">>
    ELSE <<"metadata">>

ObjectIterSource_from_path(node) ==
    IF node.kind = "missing" THEN Err("Io")
    ELSE IF node.kind = "file"
         THEN IF node.zip
              THEN Ok([kind |-> "Zip", members |-> node.members, idx |-> 0])
              ELSE Err("Zip")
         ELSE Ok([kind |-> "Dir", members |-> node.members, idx |-> 0])

(* str::splitn(n, '/') *)
FirstSlash(path) ==
    Let({i \in 1..Len(path) : path[i] = "/"},
        LAMBDA at : IF at = {} THEN 0
                    ELSE CHOOSE i \in at : \A j \in at : i <= j)

RECURSIVE splitn(_, _)
splitn(path, n) ==
    Let(FirstSlash(path), LAMBDA cut :
    IF n = 1 \/ cut = 0 THEN <<path>>
    ELSE <<SubSeq(path, 1, cut - 1)>>
         \o splitn(SubSeq(path, cut + 1, Len(path)), n - 1))

(* strip_archive_file_prefix that strips "Symbols/" for as long as the *)
(* path starts with it                                                *)
RECURSIVE strip_archive_file_prefix_repeated(_)
strip_archive_file_prefix_repeated(path) ==
    Let(splitn(path, 2), LAMBDA two :
    IF two[1] = <<"Symbols">> /\ Len(two) > 1
    THEN strip_archive_file_prefix_repeated(two[2])
    ELSE
    Let(splitn(path, 3), LAMBDA three :
    IF Len(three) > 2 /\ three[2] = <<"Symbols">> THEN three[3]
    ELSE path))

strip_archive_file_prefix(path) ==
    Let(splitn(path, 2), LAMBDA two :
    IF two[1] = <<"Symbols">> /\ Len(two) > 1 THEN two[2]
    ELSE
    Let(splitn(path, 3), LAMBDA three :
    IF Len(three) > 2 /\ three[2] = <<"Symbols">> THEN three[3]
    ELSE path))

(* The directory walked, and dent.path().strip_prefix(base) with base =    *)
(* path.join("Symbols"): the entry's path below base, or the whole path    *)
DirRoot == <<"sdk">>

dir_entry_path(name) == DirRoot \o <<"/">> \o name

strip_base(name) ==
    Let(splitn(name, 2), LAMBDA two :
    IF two[1] = <<"Symbols">>
    THEN IF Len(two) > 1 THEN two[2] ELSE <<>>
    ELSE dir_entry_path(name))

(* Object::from_vec / Object::from_path over the entry's bytes *)
Object_parse(m) ==
    CASE m.body = "macho" -> Ok(m.name)
      [] m.body = "notmacho" -> Err("MachO(LoadError)")
      [] m.body = "malformed" -> Err("MachO(Other)")
      [] OTHER -> Err("Io")

(* What a step of the loop of next() comes to: an item to return, or *)
(* nothing, and the loop goes on                                     *)
Continue == <<>>

(* iter_try!: an error is returned as the item; a value lets the loop *)
(* go on                                                              *)
iter_try(r) == IF IsOk(r) THEN Continue ELSE Some(r)

(* try_return_obj! that returns a load error like the other errors *)
try_return_obj_no_skip(expr, name) ==
    IF IsOk(expr) THEN Some(Ok([name |-> name, object |-> expr.val]))
    ELSE Some(expr)

try_return_obj(expr, name) ==
    IF IsOk(expr) THEN Some(Ok([name |-> name, object |-> expr.val]))
    ELSE IF expr.tag = "MachO(LoadError)" THEN Continue
    ELSE Some(expr)

(* archive.by_index(idx), f.read_to_end(&mut buf), dir_iter.next() and *)
(* dent.metadata()                                                     *)
by_index(m) == IF m.body = "corrupt" THEN Err("Zip") ELSE Ok(m)

read_to_end(m) ==
    IF m.body = "unreadable" THEN Err("Io")
    ELSE Ok(IF m.body \in {"empty", "dir"} THEN 0 ELSE 1)

dent_res(m) == IF m.body = "walkerr" THEN Err("WalkDir") ELSE Ok(m)

metadata(m) ==
    IF m.body = "nometa" THEN Err("WalkDir")
    ELSE Ok([is_file |-> m.body # "dir",
             len |-> IF m.body \in {"empty", "dir"} THEN 0 ELSE 1])

(* ObjectsIter::next: the item returned (None at the end), the source   *)
(* after the call, and the positions of the entries the call looked at  *)
Returning(item, source) == [item |-> item, source |-> source, visited |-> <<>>]

Visiting(i, r) == [r EXCEPT !.visited = <<i>> \o @]

RECURSIVE objects_iter_next(_)
objects_iter_next(source) ==
    IF source.idx >= Len(source.members) THEN Returning(None, source)
    ELSE
    Let(source.members[source.idx + 1], LAMBDA m :
    Let([source EXCEPT !.idx = @ + 1], LAMBDA advanced :
    Visiting(source.idx + 1,
    IF source.kind = "Zip"
    THEN Let(iter_try(by_index(m)), LAMBDA no_member :
         IF no_member # Continue THEN Returning(no_member, source)
         ELSE
         Let(iter_try(read_to_end(m)), LAMBDA not_read :
         IF not_read # Continue THEN Returning(not_read, advanced)
         ELSE
         Let(IF read_to_end(m).val > 0
             THEN try_return_obj(Object_parse(m),
                                 strip_archive_file_prefix(m.name))
             ELSE Continue,
             LAMBDA step :
         IF step # Continue THEN Returning(step, advanced)
         ELSE objects_iter_next(advanced))))
    ELSE Let(iter_try(dent_res(m)), LAMBDA no_dent :
         IF no_dent # Continue THEN Returning(no_dent, advanced)
         ELSE
         Let(iter_try(metadata(m)), LAMBDA no_md :
         IF no_md # Continue THEN Returning(no_md, advanced)
         ELSE
         Let(IF metadata(m).val.is_file /\ metadata(m).val.len > 0
             THEN try_return_obj(Object_parse(m), strip_base(m.name))
             ELSE Continue,
             LAMBDA step :
         IF step # Continue THEN Returning(step, advanced)
         ELSE objects_iter_next(advanced)))))))

(***************************************************************************)
(* The object reader (dsym.rs).  What OFile::parse made of the bytes is an *)
(* OFile:                                                                  *)
(*   [kind |-> "MachFile", header |-> [cputype, cpusubtype],               *)
(*    commands |-> load commands, symtab |-> None or Some(symbols)]        *)
(*   [kind |-> "FatFile", files |-> <<[arch |-> [cputype, cpusubtype,      *)
(*                                              offset], file |-> OFile]>>]*)
(*   [kind |-> "ArFile"] and [kind |-> "SymDef"]                           *)
(* A symbol of a symbol table is                                           *)
(*   [kind |-> "Defined", "Undefined", "Absolute", ...,                    *)
(*    name |-> None or Some(name), external |-> BOOLEAN,                   *)
(*    section |-> None or Some([segname, sectname]), entry |-> address]    *)
(***************************************************************************)
SEG_TEXT == "__TEXT"

SECT_TEXT == "__text"

(* mach_object::get_arch_from_flag: the (cputype, cpusubtype) of a flag *)
(* of the architecture table, or None                                   *)
get_arch_from_flag(flag) ==
    CASE flag = "arm64" -> Some(<<"CPU_TYPE_ARM64", "CPU_SUBTYPE_ARM64_ALL">>)
      [] flag = "armv7" -> Some(<<"CPU_TYPE_ARM", "CPU_SUBTYPE_ARM_V7">>)
      [] flag = "x86_64" ->
             Some(<<"CPU_TYPE_X86_64", "CPU_SUBTYPE_X86_64_ALL">>)
      [] OTHER -> None

(* mach_object::get_arch_name_from_types: the flag of the table's entry *)
(* with this (cputype, cpusubtype), or None                             *)
get_arch_name_from_types(cputype, cpusubtype) ==
    CASE <<cputype, cpusubtype>>
             = <<"CPU_TYPE_ARM64", "CPU_SUBTYPE_ARM64_ALL">> -> Some("arm64")
      [] <<cputype, cpusubtype>>
             = <<"CPU_TYPE_ARM", "CPU_SUBTYPE_ARM_V7">> -> Some("armv7")
      [] <<cputype, cpusubtype>>
             = <<"CPU_TYPE_X86_64", "CPU_SUBTYPE_X86_64_ALL">> -> Some("x86_64")
      [] OTHER -> None

(* Variant::arch *)
Variant_arch(variant) ==
    Let(get_arch_name_from_types(variant.cputype, variant.cpusubtype),
        LAMBDA found : IF found = None THEN "unknown" ELSE found[1])

(* The loop of extract_variant over the load commands: the fields of the *)
(* variant after the commands                                            *)
RECURSIVE extract_commands(_, _)
extract_commands(variant, commands) ==
    IF commands = <<>> THEN variant
    ELSE Let(Head(commands), LAMBDA load_cmd :
         extract_commands(
             CASE load_cmd.cmd = "Uuid" ->
                      [variant EXCEPT !.uuid = Some(load_cmd.uuid)]
               [] load_cmd.cmd = "IdDyLib" ->
                      [variant EXCEPT !.name = Some(load_cmd.name)]
               [] load_cmd.cmd \in {"Segment", "Segment64"} ->
                      IF load_cmd.segname = "__TEXT"
                      THEN [variant EXCEPT !.vmaddr = load_cmd.vmaddr,
                                           !.vmsize = load_cmd.vmsize]
                      ELSE variant
               [] OTHER -> variant,
             Tail(commands)))

extract_variant(found, file) ==
    IF file.kind = "MachFile"
    THEN Append(found,
             extract_commands(
                 [cputype |-> file.header.cputype,
                  cpusubtype |-> file.header.cpusubtype,
                  uuid |-> None, name |-> None, vmaddr |-> 0, vmsize |-> 0],
                 file.commands))
    ELSE found

RECURSIVE extract_variants(_, _)
extract_variants(found, files) ==
    IF files = <<>> THEN found
    ELSE extract_variants(extract_variant(found, Head(files).file),
                          Tail(files))

(* Object::from_backing, past OFile::parse *)
from_backing(ofile) ==
    [ofile |-> ofile,
     variants |-> CASE ofile.kind = "FatFile" ->
                           extract_variants(<<>>, ofile.files)
                    [] ofile.kind = "MachFile" -> extract_variant(<<>>, ofile)
                    [] OTHER -> <<>>]

(* Object::symbols: the Symbols of the first child (or of the file) whose *)
(* header bears the architecture of the flag                              *)
Object_symbols(object, arch) ==
    Let(get_arch_from_flag(arch), LAMBDA found :
    IF found = None THEN Err("UnknownArchitecture")
    ELSE
    CASE object.ofile.kind = "FatFile" ->
             Let({i \in 1..Len(object.ofile.files) :
                     /\ object.ofile.files[i].arch.cputype = found[1][1]
                     /\ object.ofile.files[i].arch.cpusubtype = found[1][2]},
                 LAMBDA at :
             IF at = {} THEN Err("MissingArchitecture")
             ELSE Let(object.ofile.files[CHOOSE i \in at : \A j \in at : i <= j],
                      LAMBDA child :
                  Ok([ofile |-> child.file, cursor |-> child.arch.offset])))
      [] object.ofile.kind = "MachFile" ->
             IF /\ object.ofile.header.cputype = found[1][1]
                /\ object.ofile.header.cpusubtype = found[1][2]
             THEN Ok([ofile |-> object.ofile, cursor |-> 0])
             ELSE Err("MissingArchitecture")
      [] OTHER -> Err("MissingArchitecture"))

(* Symbols::iter: OFile::symbols gives an iterator for a Mach-O file that *)
(* has a symbol table                                                     *)
Symbols_iter(syms) ==
    [iter |-> IF syms.ofile.kind = "MachFile" THEN syms.ofile.symtab ELSE None,
     pos |-> 0]

(* The test of SymbolIterator::next that takes any section of the segment *)
is_text_symbol_any_section(sym) ==
    /\ sym.kind = "Defined"
    /\ ~sym.external /\ sym.name # None
    /\ sym.section # None
    /\ sym.section[1].segname = SEG_TEXT

(* The test of SymbolIterator::next *)
is_text_symbol(sym) ==
    /\ sym.kind = "Defined"
    /\ ~sym.external /\ sym.name # None
    /\ sym.section # None
    /\ sym.section[1].segname = SEG_TEXT
    /\ sym.section[1].sectname = SECT_TEXT

(* SymbolIterator::next: the pair returned (None at the end) and the *)
(* iterator after the call                                           *)
RECURSIVE symbol_iterator_next(_)
symbol_iterator_next(it) ==
    IF it.iter = None THEN [item |-> None, iter |-> it]
    ELSE IF it.pos >= Len(it.iter[1]) THEN [item |-> None, iter |-> it]
    ELSE Let(it.iter[1][it.pos + 1], LAMBDA sym :
         Let([it EXCEPT !.pos = @ + 1], LAMBDA advanced :
         IF is_text_symbol(sym)
         THEN [item |-> Some(<<sym.entry, sym.name[1]>>), iter |-> advanced]
         ELSE symbol_iterator_next(advanced)))

(***************************************************************************)
(* The inputs.                                                             *)
(***************************************************************************)
MaxVariants == 2

MaxAddr == 4

Sym(addr, name) == [addr |-> addr, name |-> name]

Variant(name, arch, uuid, syms) ==
    [name |-> name, arch |-> arch, uuid |-> uuid, syms |-> syms]

(* The variants the walker may emit.  VarA and VarB share a "name:arch" *)
(* under different UUIDs and VarB reports two symbols at one address;   *)
(* VarC has a ':' in its name; VarD has no UUID; VarE shares its UUID   *)
(* with VarA; VarF reports an address the index item cannot hold; VarG  *)
(* has an architecture name that, tagged, reads as a UUID in urn form.  *)
VarA ==
    Variant(<<Ch.n>>, <<Ch.x>>, Some(33),
            <<Sym(3, <<Ch.s>>), Sym(1, <<Ch.t>>)>>)

VarB ==
    Variant(<<Ch.n>>, <<Ch.x>>, Some(18),
            <<Sym(1, <<Ch.s>>), Sym(1, <<Ch.t>>), Sym(2, <<Ch.s, Ch.t>>)>>)

VarC == Variant(<<Ch.n, Ch.colon, Ch.n>>, <<Ch.x>>, Some(18), <<Sym(3, <<Ch.t>>)>>)

VarD == Variant(<<Ch.n>>, <<Ch.s>>, None, <<Sym(2, <<Ch.n>>)>>)

VarE ==
    Variant(<<Ch.slash, Ch.n>>, <<Ch.s>>, Some(33),
            <<Sym(3, <<Ch.x>>), Sym(MaxAddr, <<Ch.s>>)>>)

VarF == Variant(<<Ch.n>>, <<Ch.s>>, Some(160), <<Sym(AddrFieldMax + 1, <<Ch.s>>)>>)

VarG == Variant(<<Ch.u>>, uuid_to_string(33), Some(18), <<Sym(1, <<Ch.s>>)>>)

VariantChoices == {VarA, VarB, VarC, VarD, VarE, VarF, VarG}

(* The streams whose files are also read damaged *)
DamagedStreams == { <<VarA>>, <<VarA, VarC>> }

(* What a caller may ask for *)
UuidArgs == {18, 33, 160}

AddrArgs == 0..MaxAddr

NameArgs ==
    { <<<<Ch.n>>, <<Ch.x>>>>, <<<<Ch.n, Ch.colon, Ch.n>>, <<Ch.x>>>>,
      <<<<Ch.n>>, <<Ch.n, Ch.colon, Ch.x>>>>, <<<<Ch.slash, Ch.n>>, <<Ch.s>>>>,
      <<<<Ch.u>>, uuid_to_string(33)>>, <<<<Ch.n>>, <<Ch.t>>>> }

FuzzyArgs ==
    {uuid_to_string(u) : u \in UuidArgs}
    \cup {na[1] \o <<Ch.colon>> \o na[2] : na \in NameArgs}
    \cup { <<Ch.n>>, <<22, 1>>, UrnPrefix \o uuid_to_string(18) }

(* The paths asked about: a folder, and a file name put together from *)
(* version parts, whitespace, a build and an extension, or one of a   *)
(* few names that are no SDK names                                    *)
Folders ==
    {Some("iOS DeviceSupport"), Some("tvOS DeviceSupport"),
     Some("watchOS DeviceSupport"), None}

Numbers ==
    { <<"1", "0">>, <<"2">>, <<"0", "3">>,
      <<"4", "2", "9", "4", "9", "6", "7", "2", "9", "6">>, <<"U+0663">> }

Patches == {None} \cup {Some(n) : n \in {<<"3">>, <<"0">>, <<"U+0663">>}}

Builds == { <<"1", "4", "C", "9", "3">>, <<"x">> }

Extensions ==
    { <<>>, <<".", "z", "i", "p">>, <<".", "m", "e", "m", "d", "b">>,
      <<".", "z", "i", "p", ".", "z", "i", "p">> }

Format(major, minor, patch, build) ==
    major \o <<".">> \o minor
    \o (IF patch = None THEN <<>> ELSE <<".">> \o patch[1])
    \o <<" ", "(">> \o build \o <<")">>

OtherNames ==
    { <<"1", "0", " ", "(", "x", ")">>,
      <<"1", "0", ".", "2", "(", "x", ")">>,
      <<"1", "0", ".", "2", "\t", " ", "(", "x", ")">>,
      <<"1", "0", ".", "2", ".", " ", "(", "x", ")">>,
      <<"1", "0", ".", "2", " ", "(", ")">>,
      <<"1", "0", ".", "2", " ", "(", "x", "-", ")">>,
      <<" ", "1", "0", ".", "2", " ", "(", "x", ")">>,
      <<".", "2", " ", "(", "x", ")">>,
      <<>> }

FileNames ==
    {Format(ma, mi, pa, b) \o ext :
        ma \in Numbers, mi \in {<<"2">>, <<"0", "3">>}, pa \in Patches,
        b \in Builds, ext \in Extensions}
    \cup {Format(<<"1", "0">>, mi, None, <<"x">>) : mi \in Numbers}
    \cup OtherNames

(* What may lie behind the buffer: an unmapped page, or mapped bytes *)
Beyonds == { <<>>, <<Ch.x, Ch.nul>> }

(* The values a damaged cell may take *)
DamageValues == {0, 2, 255}

(* The bundles walked.  An archive or a directory holds up to MaxMembers *)
(* entries; the entries that parse are named in the ways a support       *)
(* bundle names them, and a bundle of one entry may bear any of the      *)
(* names of MemberNames.                                                 *)
MaxMembers == 3

MemberNames ==
    { <<"Symbols", "/", "a">>,
      <<"X", "/", "Symbols", "/", "a", "/", "b">>,
      <<"Symbols", "/", "Symbols", "/", "a">>,
      <<"a", "/", "b">>,
      <<"Symbols">>,
      <<"Symbols", "/">>,
      <<"X", "/", "Symbols">>,
      <<"X", "/", "Symbols", "/">>,
      <<"/", "Symbols", "/", "a">>,
      <<"Symbols", "x", "/", "a">>,
      <<"X", "/", "Y", "/", "Symbols", "/", "a">>,
      <<"a">>,
      <<>> }

Member(name, body) == [name |-> name, body |-> body]

ZipBodies == {"corrupt", "unreadable", "empty", "dir", "notmacho", "malformed"}

DirBodies ==
    {"walkerr", "nometa", "unreadable", "empty", "dir", "notmacho",
     "malformed"}

ParsedMembers ==
    {Member(<<"Symbols", "/", "a">>, "macho"),
     Member(<<"X", "/", "Symbols", "/", "a", "/", "b">>, "macho"),
     Member(<<"a", "/", "b">>, "macho")}

ZipMembers ==
    ParsedMembers \cup {Member(<<"Symbols", "/", "a">>, b) : b \in ZipBodies}

DirMembers ==
    ParsedMembers \cup {Member(<<"Symbols", "/", "a">>, b) : b \in DirBodies}

SeqsUpTo(set, n) == UNION {[1..k -> set] : k \in 0..n}

NamedBundles == {<<Member(name, "macho")>> : name \in MemberNames}

ZipNode(members) == [kind |-> "file", zip |-> TRUE, members |-> members]

DirNode(members) == [kind |-> "dir", zip |-> FALSE, members |-> members]

MissingNode == [kind |-> "missing", zip |-> FALSE, members |-> <<>>]

NotZipNode == [kind |-> "file", zip |-> FALSE, members |-> <<>>]

Nodes ==
    {MissingNode, NotZipNode}
    \cup {ZipNode(ms) : ms \in SeqsUpTo(ZipMembers, MaxMembers) \cup NamedBundles}
    \cup {DirNode(ms) : ms \in SeqsUpTo(DirMembers, MaxMembers) \cup NamedBundles}

(* ... and the few of them a processor is tried on *)
FewNodes == {MissingNode, NotZipNode, ZipNode(<<>>), DirNode(<<>>)}

(* The path of the SDK that is walked *)
WalkedPath ==
    [parent |-> Some("iOS DeviceSupport"),
     file_name |-> <<"1", "0", ".", "2", " ", "(", "x", ")">>]

(* The objects read: symbol tables of up to MaxSyms symbols, in a Mach-O *)
(* file of one architecture, and containers of every shape               *)
MaxSyms == 3

MachSymbol(kind, name, external, section, entry) ==
    [kind |-> kind, name |-> name, external |-> external,
     section |-> section, entry |-> entry]

Sect(segname, sectname) == Some([segname |-> segname, sectname |-> sectname])

SymbolChoices ==
    {MachSymbol("Defined", Some("_f"), FALSE, Sect(SEG_TEXT, SECT_TEXT), 1),
     MachSymbol("Defined", Some("_g"), FALSE, Sect(SEG_TEXT, SECT_TEXT), 2),
     MachSymbol("Defined", Some("_ext"), TRUE, Sect(SEG_TEXT, SECT_TEXT), 3),
     MachSymbol("Defined", None, FALSE, Sect(SEG_TEXT, SECT_TEXT), 4),
     MachSymbol("Defined", Some("_nosect"), FALSE, None, 5),
     MachSymbol("Defined", Some("_const"), FALSE, Sect(SEG_TEXT, "__const"), 6),
     MachSymbol("Defined", Some("_data"), FALSE, Sect("__DATA", SECT_TEXT), 7),
     MachSymbol("Undefined", Some("_undef"), FALSE, None, 0),
     MachSymbol("Absolute", Some("_abs"), FALSE, None, 8)}

Arch(flag) ==
    [cputype |-> get_arch_from_flag(flag)[1][1],
     cpusubtype |-> get_arch_from_flag(flag)[1][2]]

UnnamedArch == [cputype |-> "CPU_TYPE_POWERPC", cpusubtype |-> "CPU_SUBTYPE_POWERPC_ALL"]

MachFile(mach_header, symtab) ==
    [kind |-> "MachFile", header |-> mach_header,
     commands |-> <<[cmd |-> "Uuid", uuid |-> "U1"],
                    [cmd |-> "Segment64", segname |-> "__TEXT",
                     vmaddr |-> 4, vmsize |-> 2],
                    [cmd |-> "Segment64", segname |-> "__DATA",
                     vmaddr |-> 6, vmsize |-> 1],
                    [cmd |-> "SymTab"]>>,
     symtab |-> symtab]

FatArch(mach_header, offset) ==
    [cputype |-> mach_header.cputype, cpusubtype |-> mach_header.cpusubtype,
     offset |-> offset]

FatFile(files) == [kind |-> "FatFile", files |-> files]

ArFile == [kind |-> "ArFile"]

OneSymtab == Some(<<MachSymbol("Defined", Some("_f"), FALSE, Sect(SEG_TEXT, SECT_TEXT), 1)>>)

OFiles ==
    {MachFile(Arch("arm64"), Some(t)) : t \in SeqsUpTo(SymbolChoices, MaxSyms)}
    \cup {MachFile(Arch("arm64"), None),
          MachFile(UnnamedArch, OneSymtab),
          ArFile,
          FatFile(<<>>),
          FatFile(<<[arch |-> FatArch(Arch("armv7"), 1),
                     file |-> MachFile(Arch("armv7"), OneSymtab)],
                    [arch |-> FatArch(Arch("arm64"), 2),
                     file |-> MachFile(Arch("arm64"), OneSymtab)]>>),
          FatFile(<<[arch |-> FatArch(Arch("arm64"), 1),
                     file |-> MachFile(Arch("armv7"), OneSymtab)]>>),
          FatFile(<<[arch |-> FatArch(Arch("arm64"), 1),
                     file |-> ArFile]>>)}

ArchFlags == {"arm64", "armv7", "x86_64", "mips", ""}

(* The views taken: buffers of a few lengths, and offsets, lengths and *)
(* counts at the ends of the usize range and where a product wraps     *)
BufferLens == {0, HeaderSize, 3 * HeaderSize}

Words ==
    {0, 1, 2, HeaderSize, HeaderSize + 1, 3 * HeaderSize,
     UsizeModulus \div 3, UsizeModulus \div 3 + 1, UsizeModulus \div 2,
     UsizeModulus - HeaderSize, UsizeModulus - 1}

ElementSizes == {IndexedUuidSize, StoredSliceSize}

Profiles == {"overflow-checks", "wrapping"}

BufferOf(len) == [buf |-> [i \in 1..len |-> 0], beyond |-> <<>>]

(***************************************************************************)
(* The state.                                                              *)
(***************************************************************************)
VARIABLES
    stream,     \* what the walker has emitted to the writer so far
    file,       \* the bytes of the memdb file
    phase,      \* "ingest", "failed", "file", "damaged", "open", "rejected"
    reader,     \* the result of constructing the MemDb
    call,       \* per caller: the running or last call and its result
    sdk_path,   \* the path an SdkInfo is asked for
    sdk_info,   \* what SdkInfo::from_path returned for it
    sdk_proc,   \* the result of SdkProcessor::new
    fs_ops,     \* the file-system operations made on the SDK's path so far
    walk,       \* the ObjectsIter and what its next() has returned so far
    obj,        \* a parsed Object, its Symbols and its SymbolIterator
    view        \* a view asked of a Backing, and what was returned

vars ==
    <<stream, file, phase, reader, call, sdk_path, sdk_info,
      sdk_proc, fs_ops, walk, obj, view>>

memdb_vars == <<stream, file, phase, reader, call>>

other_vars == <<sdk_proc, fs_ops, walk, obj, view>>

Idle == [op |-> "idle", args |-> <<>>, res |-> Ok(None), iter |-> None]

NotConstructed == Err("NotConstructed")

NoPath == [parent |-> None, file_name |-> <<>>]

NotAsked == [asked |-> FALSE, val |-> None]

Returned(info) == [asked |-> TRUE, val |-> info]

(* No processor, no iterator, no object and no view yet *)
NotCalled == Err("NotCalled")

NotStarted == [source |-> Err("NotStarted"), out |-> <<>>, visited |-> <<>>]

NoObject == [file |-> Err("NoObject"), arch |-> "", symbols |-> NotCalled,
             iter |-> None, out |-> <<>>]

NoView == [op |-> "none", args |-> <<>>, len |-> 0, res |-> Ok(None)]

InitOthers ==
    /\ sdk_proc = NotCalled
    /\ fs_ops = <<>>
    /\ walk = NotStarted
    /\ obj = NoObject
    /\ view = NoView

Init ==
    /\ stream = <<>>
    /\ file = <<>>
    /\ phase = "ingest"
    /\ reader = NotConstructed
    /\ call = [c \in {1} |-> Idle]
    /\ sdk_path = NoPath
    /\ sdk_info = NotAsked
    /\ InitOthers

(* The walker hands the writer one more variant *)
Ingest(v) ==
    /\ phase = "ingest"
    /\ Len(stream) < MaxVariants
    /\ stream' = Append(stream, v)
    /\ UNCHANGED <<other_vars, file, phase, reader, call, sdk_path, sdk_info>>

(* The writer serializes what it has collected *)
Dump ==
    /\ phase = "ingest"
    /\ \E out \in {Writer(stream)} :
           IF IsOk(out)
           THEN file' = out.val /\ phase' = "file"
           ELSE file' = file /\ phase' = "failed"
    /\ UNCHANGED <<other_vars, stream, reader, call, sdk_path, sdk_info>>

(* The file is not what the writer wrote: one cell differs *)
Damage(pos, val) ==
    /\ phase = "file"
    /\ stream \in DamagedStreams
    /\ pos \in 1..Len(file)
    /\ file[pos] # val
    /\ file' = [file EXCEPT ![pos] = val]
    /\ phase' = "damaged"
    /\ UNCHANGED <<other_vars, stream, reader, call, sdk_path, sdk_info>>

(* ... or it is cut short; a damaged file is cut to less than a header *)
Truncate(len) ==
    /\ stream \in DamagedStreams
    /\ phase = "file" \/ (phase = "damaged" /\ len < HeaderSize)
    /\ len < Len(file)
    /\ file' = SubSeq(file, 1, len)
    /\ phase' = "damaged"
    /\ UNCHANGED <<other_vars, stream, reader, call, sdk_path, sdk_info>>

(* MemDb::from_slice / from_vec / from_cow / from_path *)
Open(beyond) ==
    /\ phase \in {"file", "damaged"}
    /\ reader' = load_memdb([buf |-> file, beyond |-> beyond])
    /\ phase' = IF IsOk(reader') THEN "open" ELSE "rejected"
    /\ UNCHANGED <<other_vars, stream, file, call, sdk_path, sdk_info>>

(* A reader that remembers a failure: after BadMemDb it holds no bytes *)
reader_after_poisoned(rd, res) ==
    IF res.tag = "BadMemDb" THEN [rd EXCEPT !.val.backing.buf = <<>>] ELSE rd

(* The methods take &self: the reader after a call is the reader before *)
reader_after(rd, res) == rd

Called(c, op, args, result, iter) ==
    /\ phase = "open"
    /\ call[c] = Idle
    /\ \E res \in {result} :
           /\ call' = [call EXCEPT ![c] = [op |-> op, args |-> args,
                                           res |-> res, iter |-> iter]]
           /\ reader' = reader_after(reader, res)
    /\ UNCHANGED <<other_vars, stream, file, phase, sdk_path, sdk_info>>

LookupByUuid(c, uuid, addr) ==
    Called(c, "lookup_by_uuid", <<uuid, addr>>,
           lookup_by_uuid(reader.val.backing, uuid, addr), None)

LookupByObjectName(c, name, arch, addr) ==
    Called(c, "lookup_by_object_name", <<name, arch, addr>>,
           lookup_by_object_name(reader.val.backing, name, arch, addr), None)

FindUuid(c, name, arch) ==
    Called(c, "find_uuid", <<name, arch>>,
           find_uuid(reader.val.backing, name, arch), None)

FindUuidFuzzy(c, str) ==
    Called(c, "find_uuid_fuzzy", <<str>>,
           find_uuid_fuzzy(reader.val.backing, str), None)

IterSymbols(c, uuid) ==
    /\ phase = "open"
    /\ \E it \in {iter_symbols(reader.val.backing, uuid)} :
        Called(c, "iter_symbols", <<uuid>>,
               IF IsOk(it) THEN Ok(None) ELSE it,
               IF IsOk(it) THEN Some(it.val) ELSE None)

(* SymbolIter::next; `res` holds what it returned: Ok(Some(symbol)), an *)
(* error for the item, or "End" for None.                               *)
SymbolIterNext(c) ==
    /\ phase = "open"
    /\ call[c].iter # None
    /\ \E step \in {symbol_iter_next(reader.val.backing, call[c].iter[1])} :
       \E res \in {IF step.item = None THEN Err("End")
                   ELSE IF IsOk(step.item[1]) THEN Ok(Some(step.item[1].val))
                   ELSE step.item[1]} :
           /\ call' = [call EXCEPT ![c].res = res,
                                   ![c].iter = Some(step.iter)]
           /\ reader' = reader_after(reader, res)
    /\ UNCHANGED <<other_vars, stream, file, phase, sdk_path, sdk_info>>

(* The caller takes the result (and drops the iterator) *)
Return(c) ==
    /\ call[c] # Idle
    /\ call' = [call EXCEPT ![c] = Idle]
    /\ UNCHANGED <<other_vars, stream, file, phase, reader, sdk_path, sdk_info>>

Lookups ==
    \E c \in DOMAIN call :
        \/ \E uuid \in UuidArgs, addr \in AddrArgs : LookupByUuid(c, uuid, addr)
        \/ \E na \in NameArgs, addr \in AddrArgs :
               LookupByObjectName(c, na[1], na[2], addr)
        \/ \E na \in NameArgs : FindUuid(c, na[1], na[2])
        \/ \E str \in FuzzyArgs : FindUuidFuzzy(c, str)
        \/ \E uuid \in UuidArgs : IterSymbols(c, uuid)
        \/ SymbolIterNext(c)
        \/ Return(c)

Next ==
    \/ \E v \in VariantChoices : Ingest(v)
    \/ Dump
    \/ \E pos \in 1..Len(file), val \in DamageValues : Damage(pos, val)
    \/ \E len \in 0..Len(file) : Truncate(len)
    \/ \E beyond \in Beyonds : Open(beyond)
    \/ Lookups

Spec == Init /\ [][Next]_vars

(***************************************************************************)
(* Two callers share one Reader over the file written for one variant,     *)
(* pristine or with one byte of its tagged-name region invalid.            *)
(***************************************************************************)
CallerIds == {1, 2}

InitShared ==
    /\ stream = <<VarA>>
    /\ file = Serialize(stream)
    /\ phase = "file"
    /\ reader = NotConstructed
    /\ call = [c \in CallerIds |-> Idle]
    /\ sdk_path = NoPath
    /\ sdk_info = NotAsked
    /\ InitOthers

(* The cells of the tagged-name region, as the header gives them *)
TaggedCells(f) ==
    Let(header([buf |-> f, beyond |-> <<>>]).val, LAMBDA head :
        (head.tagged_object_names_start + 1)..head.tagged_object_names_end)

NextShared ==
    \/ \E pos \in TaggedCells(file) : Damage(pos, Ch.bad)
    \/ \E beyond \in Beyonds : Open(beyond)
    \/ Lookups

SpecShared == InitShared /\ [][NextShared]_vars

(***************************************************************************)
(* The SDK descriptor: a path is named, and SdkInfo::from_path is asked.   *)
(***************************************************************************)
Locate(parent, file_name) ==
    /\ sdk_path = NoPath
    /\ ~sdk_info.asked
    /\ sdk_path' = [parent |-> parent, file_name |-> file_name]
    /\ sdk_path' # NoPath
    /\ UNCHANGED <<other_vars, stream, file, phase, reader, call, sdk_info>>

FromPath ==
    /\ ~sdk_info.asked
    /\ sdk_path # NoPath
    /\ sdk_info' = Returned(from_path(sdk_path))
    /\ UNCHANGED <<other_vars, stream, file, phase, reader, call, sdk_path>>

NextSdk ==
    \/ \E parent \in Folders, file_name \in FileNames :
           Locate(parent, file_name)
    \/ FromPath

SpecSdk == Init /\ [][NextSdk]_vars

(***************************************************************************)
(* The SDK processor: SdkProcessor::new over the path named, and           *)
(* SdkProcessor::objects, which is the first to touch the file system.     *)
(***************************************************************************)
NewProcessor ==
    /\ sdk_proc = NotCalled
    /\ sdk_path # NoPath
    /\ sdk_proc' = SdkProcessor_new(sdk_path)
    /\ UNCHANGED <<memdb_vars, sdk_path, sdk_info, fs_ops, walk, obj, view>>

Objects(node) ==
    /\ IsOk(sdk_proc)
    /\ walk = NotStarted
    /\ fs_ops = <<>>
    /\ fs_ops' = fs_ops \o from_path_fs_ops(node)
    /\ walk' = [source |-> ObjectIterSource_from_path(node), out |-> <<>>,
                visited |-> <<>>]
    /\ UNCHANGED <<memdb_vars, sdk_path, sdk_info, sdk_proc, obj, view>>

NextProcessor ==
    \/ \E parent \in Folders, file_name \in FileNames :
           Locate(parent, file_name)
    \/ FromPath
    \/ NewProcessor
    \/ \E node \in FewNodes : Objects(node)

SpecProcessor == Init /\ [][NextProcessor]_vars

(***************************************************************************)
(* The bundle walk: the objects of an SDK are iterated with                *)
(* ObjectsIter::next, which may be called on after it has returned None    *)
(* or an error.                                                            *)
(***************************************************************************)
InitWalk ==
    /\ stream = <<>>
    /\ file = <<>>
    /\ phase = "ingest"
    /\ reader = NotConstructed
    /\ call = [c \in {1} |-> Idle]
    /\ sdk_path = WalkedPath
    /\ sdk_info = NotAsked
    /\ sdk_proc = SdkProcessor_new(WalkedPath)
    /\ fs_ops = <<>>
    /\ walk = NotStarted
    /\ obj = NoObject
    /\ view = NoView

ObjectsIterNext ==
    /\ IsOk(walk.source)
    /\ Len(walk.out) < Len(walk.source.val.members) + 2
    /\ \E r \in {objects_iter_next(walk.source.val)} :
           walk' = [source |-> Ok(r.source), out |-> Append(walk.out, r.item),
                    visited |-> walk.visited \o r.visited]
    /\ UNCHANGED <<memdb_vars, sdk_path, sdk_info, sdk_proc, fs_ops, obj, view>>

NextWalk ==
    \/ walk = NotStarted /\ \E node \in Nodes : Objects(node)
    \/ ObjectsIterNext

SpecWalk == InitWalk /\ [][NextWalk]_vars

(***************************************************************************)
(* Reading one object: Object::from_vec, Object::symbols, Symbols::iter    *)
(* and the calls of SymbolIterator::next.                                  *)
(***************************************************************************)
FromVec(ofile) ==
    /\ obj = NoObject
    /\ obj' = [obj EXCEPT !.file = Ok(from_backing(ofile))]
    /\ UNCHANGED <<memdb_vars, sdk_path, sdk_info, sdk_proc, fs_ops, walk, view>>

ObjectSymbols(arch) ==
    /\ IsOk(obj.file)
    /\ obj.symbols = NotCalled
    /\ obj' = [obj EXCEPT !.arch = arch,
                          !.symbols = Object_symbols(obj.file.val, arch)]
    /\ UNCHANGED <<memdb_vars, sdk_path, sdk_info, sdk_proc, fs_ops, walk, view>>

(* obj.symbols(var.arch()) for a variant of obj.variants() *)
VariantSymbols(i) ==
    /\ IsOk(obj.file)
    /\ obj.symbols = NotCalled
    /\ i \in 1..Len(obj.file.val.variants)
    /\ \E arch \in {Variant_arch(obj.file.val.variants[i])} :
           obj' = [obj EXCEPT !.arch = arch,
                              !.symbols = Object_symbols(obj.file.val, arch)]
    /\ UNCHANGED <<memdb_vars, sdk_path, sdk_info, sdk_proc, fs_ops, walk, view>>

SymbolsIter ==
    /\ IsOk(obj.symbols)
    /\ obj.iter = None
    /\ obj' = [obj EXCEPT !.iter = Some(Symbols_iter(obj.symbols.val))]
    /\ UNCHANGED <<memdb_vars, sdk_path, sdk_info, sdk_proc, fs_ops, walk, view>>

SymbolIteratorNext ==
    /\ obj.iter # None
    /\ Len(obj.out) < MaxSyms + 2
    /\ \E r \in {symbol_iterator_next(obj.iter[1])} :
           obj' = [obj EXCEPT !.iter = Some(r.iter),
                              !.out = Append(@, r.item)]
    /\ UNCHANGED <<memdb_vars, sdk_path, sdk_info, sdk_proc, fs_ops, walk, view>>

NextObject ==
    \/ obj = NoObject /\ \E ofile \in OFiles : FromVec(ofile)
    \/ \E arch \in ArchFlags : ObjectSymbols(arch)
    \/ IsOk(obj.file) /\ \E i \in DOMAIN obj.file.val.variants :
                            VariantSymbols(i)
    \/ SymbolsIter
    \/ SymbolIteratorNext

SpecObject == Init /\ [][NextObject]_vars

(***************************************************************************)
(* Views of a backing: Backing::get_data and Backing::get_slice called     *)
(* with any words, in either build.                                        *)
(***************************************************************************)
GetData(buflen, start, len) ==
    /\ view' = [op |-> "get_data", args |-> <<start, len, 1>>,
                len |-> buflen,
                res |-> get_data(BufferOf(buflen), start, len)]
    /\ UNCHANGED <<memdb_vars, sdk_path, sdk_info, sdk_proc, fs_ops, walk, obj>>

GetSlice(buflen, offset, count, size, build) ==
    /\ view' = [op |-> "get_slice", args |-> <<offset, count, size>>,
                len |-> buflen,
                res |-> IF build = "wrapping"
                        THEN get_slice(BufferOf(buflen), offset, count, size)
                        ELSE get_slice_overflow_checks(BufferOf(buflen),
                                                       offset, count, size)]
    /\ UNCHANGED <<memdb_vars, sdk_path, sdk_info, sdk_proc, fs_ops, walk, obj>>

NextBacking ==
    \E buflen \in BufferLens :
        \/ \E start \in Words, len \in Words : GetData(buflen, start, len)
        \/ \E offset \in Words, count \in Words, size \in ElementSizes,
              build \in Profiles :
               GetSlice(buflen, offset, count, size, build)

SpecBacking == Init /\ [][NextBacking]_vars

(***************************************************************************)
(* What a file holds, read entry by entry from where the header says the   *)
(* tables are (no search), and the invariants of section 3.                *)
(***************************************************************************)
Backing == reader.val.backing

Hdr(b) == header(b).val

StoredUuid(b, i) ==
    IndexedUuidAt(b, Hdr(b).uuids_start + i * IndexedUuidSize)

StoredVariant(b, k) ==
    StoredSliceAt(b, Hdr(b).variants_start + k * StoredSliceSize)

ItemCount(b, k) == StoredVariant(b, k).len \div IndexItemSize

StoredItem(b, k, j) ==
    IndexItemAt(b, StoredVariant(b, k).offset + j * IndexItemSize)

StoredSymbol(b, i) ==
    StoredSliceAt(b, Hdr(b).symbols_start + i * StoredSliceSize)

StoredObjectName(b, i) ==
    StoredSliceAt(b, Hdr(b).object_names_start + i * StoredSliceSize)

InFile(b, start, len) == start + len <= Len(b.buf)

StringOk(b, slice) ==
    /\ InFile(b, slice.offset, slice.len)
    /\ ~slice.is_compressed
    /\ \A i \in 0..(slice.len - 1) : Cell(b, slice.offset + i) < 128

(* The strings of the tagged-name region, split at the NULs *)
RECURSIVE SplitAtNul(_, _)
SplitAtNul(bytes, cur) ==
    IF bytes = <<>> THEN IF cur = <<>> THEN <<>> ELSE <<cur>>
    ELSE IF Head(bytes) = Ch.nul THEN <<cur>> \o SplitAtNul(Tail(bytes), <<>>)
    ELSE SplitAtNul(Tail(bytes), Append(cur, Head(bytes)))

TaggedRegion(b) ==
    [i \in 1..(Hdr(b).tagged_object_names_end
               - Hdr(b).tagged_object_names_start) |->
        Cell(b, Hdr(b).tagged_object_names_start + i - 1)]

TaggedEntries(b) == SplitAtNul(TaggedRegion(b), <<>>)

(* The UUID table lies in the file and is strictly sorted *)
UuidTableOk(b) ==
    /\ InFile(b, Hdr(b).uuids_start, Hdr(b).uuids_count * IndexedUuidSize)
    /\ \A i, j \in 0..(Hdr(b).uuids_count - 1) :
           i < j => StoredUuid(b, i).uuid < StoredUuid(b, j).uuid

(* The tagged-name region lies in the file and holds one NUL-terminated, *)
(* valid string per UUID entry                                           *)
TaggedOk(b) ==
    /\ Hdr(b).tagged_object_names_start <= Hdr(b).tagged_object_names_end
    /\ Hdr(b).tagged_object_names_end <= Len(b.buf)
    /\ \A i \in 1..Len(TaggedRegion(b)) : TaggedRegion(b)[i] < 128
    /\ TaggedRegion(b) # <<>> =>
           TaggedRegion(b)[Len(TaggedRegion(b))] = Ch.nul
    /\ Len(TaggedEntries(b)) = Hdr(b).uuids_count

WellFormed(b) ==
    /\ UuidTableOk(b)
    /\ InFile(b, Hdr(b).variants_start,
              Hdr(b).variants_count * StoredSliceSize)
    /\ InFile(b, Hdr(b).symbols_start, Hdr(b).symbols_count * StoredSliceSize)
    /\ InFile(b, Hdr(b).object_names_start,
              Hdr(b).object_names_count * StoredSliceSize)
    /\ \A i \in 0..(Hdr(b).uuids_count - 1) :
           StoredUuid(b, i).idx < Hdr(b).variants_count
    /\ \A k \in 0..(Hdr(b).variants_count - 1) :
           /\ InFile(b, StoredVariant(b, k).offset, StoredVariant(b, k).len)
           /\ \A j \in 0..(ItemCount(b, k) - 1) :
                  /\ StoredItem(b, k, j).sym_id < Hdr(b).symbols_count
                  /\ StoredItem(b, k, j).src_id < Hdr(b).object_names_count
                  /\ \A l \in 0..(j - 1) :
                         StoredItem(b, k, l).addr < StoredItem(b, k, j).addr
    /\ \A i \in 0..(Hdr(b).symbols_count - 1) : StringOk(b, StoredSymbol(b, i))
    /\ \A i \in 0..(Hdr(b).object_names_count - 1) :
           StringOk(b, StoredObjectName(b, i))
    /\ TaggedOk(b)

(* The UUID table has an entry for `uuid` whose variant has an item at *)
(* exactly `addr`                                                      *)
StoredAt(b, uuid, addr) ==
    \E i \in 0..(Hdr(b).uuids_count - 1) :
        /\ StoredUuid(b, i).uuid = uuid
        /\ \E j \in 0..(ItemCount(b, StoredUuid(b, i).idx) - 1) :
               StoredItem(b, StoredUuid(b, i).idx, j).addr = addr

Asked(c, op) == phase = "open" /\ call[c].op = op

(***************************************************************************)
(* C1: constructing a reader succeeds exactly when the region is at least  *)
(* a header long and the header's version is 1; a region shorter than the  *)
(* header fails with BadMemDb whatever its first cell is, and any other    *)
(* version fails with UnsupportedMemDbVersion.                             *)
(***************************************************************************)
C1_LoadValidates ==
    phase \in {"open", "rejected"} =>
        reader.tag = IF Len(file) < HeaderSize THEN "BadMemDb"
                     ELSE IF file[1] # 1 THEN "UnsupportedMemDbVersion"
                     ELSE "Ok"

(* A region too short for a header whose version cell is not 1 either *)
C1_ShortBeforeVersion ==
    /\ phase = "rejected"
    /\ Len(file) \in 1..(HeaderSize - 1)
    /\ file[1] = 2
    /\ reader.tag = "BadMemDb"

(***************************************************************************)
(* C2: on a well-formed file lookup_by_uuid(u, a) returns a value, and it  *)
(* is Some exactly when the UUID table holds u and u's index items hold    *)
(* the address a; the symbol returned carries a and u.                     *)
(***************************************************************************)
C2_LookupExact ==
    \A c \in DOMAIN call :
        Asked(c, "lookup_by_uuid") /\ WellFormed(Backing) =>
            /\ call[c].res.tag = "Ok"
            /\ call[c].res.val # None <=>
                   StoredAt(Backing, call[c].args[1], call[c].args[2])
            /\ call[c].res.val # None =>
                   /\ call[c].res.val[1].addr = call[c].args[2]
                   /\ call[c].res.val[1].object_uuid = call[c].args[1]

(* An address between two stored ones is not found *)
C2_BetweenStored ==
    \E c \in DOMAIN call :
        /\ Asked(c, "lookup_by_uuid") /\ WellFormed(Backing)
        /\ StoredAt(Backing, call[c].args[1], call[c].args[2] - 1)
        /\ StoredAt(Backing, call[c].args[1], call[c].args[2] + 1)
        /\ call[c].res = Ok(None)

(* A string descriptor that points outside the file or at bytes that are *)
(* not valid UTF-8                                                       *)
StringBroken(b, slice) ==
    /\ ~slice.is_compressed
    /\ \/ ~InFile(b, slice.offset, slice.len)
       \/ \E i \in 0..(slice.len - 1) : Cell(b, slice.offset + i) >= 128

(* The file names a variant for `uuid` whose index items lie outside the  *)
(* file, or whose item at `addr` names a broken symbol or object name     *)
InconsistentFor(b, uuid, addr) ==
    /\ UuidTableOk(b)
    /\ InFile(b, Hdr(b).variants_start,
              Hdr(b).variants_count * StoredSliceSize)
    /\ InFile(b, Hdr(b).symbols_start, Hdr(b).symbols_count * StoredSliceSize)
    /\ InFile(b, Hdr(b).object_names_start,
              Hdr(b).object_names_count * StoredSliceSize)
    /\ \E i \in 0..(Hdr(b).uuids_count - 1) :
        /\ StoredUuid(b, i).uuid = uuid
        /\ StoredUuid(b, i).idx < Hdr(b).variants_count
        /\ \E k \in {StoredUuid(b, i).idx} :
            \/ ~InFile(b, StoredVariant(b, k).offset, StoredVariant(b, k).len)
            \/ /\ InFile(b, StoredVariant(b, k).offset,
                         StoredVariant(b, k).len)
               /\ \A j, l \in 0..(ItemCount(b, k) - 1) :
                      l < j => StoredItem(b, k, l).addr
                                   < StoredItem(b, k, j).addr
               /\ \E j \in 0..(ItemCount(b, k) - 1) :
                   /\ StoredItem(b, k, j).addr = addr
                   /\ StoredItem(b, k, j).sym_id < Hdr(b).symbols_count
                   /\ StoredItem(b, k, j).src_id < Hdr(b).object_names_count
                   /\ \/ StringBroken(b,
                             StoredSymbol(b, StoredItem(b, k, j).sym_id))
                      \/ StringBroken(b,
                             StoredObjectName(b, StoredItem(b, k, j).src_id))

(* The UUID at the position of the first tagged entry equal to `str` *)
FirstTagged(b, str) ==
    IF \E i \in 1..Len(TaggedEntries(b)) : TaggedEntries(b)[i] = str
    THEN Some(StoredUuid(b, (CHOOSE i \in 1..Len(TaggedEntries(b)) :
                  /\ TaggedEntries(b)[i] = str
                  /\ \A j \in 1..(i - 1) : TaggedEntries(b)[j] # str) - 1).uuid)
    ELSE None

TaggedString(name, arch) == name \o <<Ch.colon>> \o arch

(***************************************************************************)
(* C3: when the file is inconsistent for the queried UUID (its index items *)
(* lie outside the file, or the item at the queried address names a string *)
(* that is out of bounds or not valid UTF-8), lookup_by_uuid and           *)
(* lookup_by_object_name report BadMemDb to the caller.                    *)
(***************************************************************************)
C3_InconsistencyReported ==
    \A c \in DOMAIN call :
        /\ Asked(c, "lookup_by_uuid")
               /\ InconsistentFor(Backing, call[c].args[1], call[c].args[2])
               => call[c].res.tag = "BadMemDb"
        /\ Asked(c, "lookup_by_object_name") /\ TaggedOk(Backing)
               /\ (\E u \in UuidArgs :
                      /\ FirstTagged(Backing, TaggedString(call[c].args[1],
                                                           call[c].args[2]))
                             = Some(u)
                      /\ InconsistentFor(Backing, u, call[c].args[3]))
               => call[c].res.tag = "BadMemDb"

(* The Reader is open over exactly what the writer emitted for the stream *)
Pristine == phase = "open" /\ file = Serialize(stream)

(* The names the walker emitted for `uuid` at `addr`, in order of emission *)
Emitted(uuid, addr) ==
    Let(SelectSeq(stream, LAMBDA v : v.uuid = Some(uuid)), LAMBDA mine :
    Let(Flatten([i \in 1..Len(mine) |-> mine[i].syms]), LAMBDA syms :
    Let(SelectSeq(syms, LAMBDA sym : sym.addr = addr), LAMBDA at :
    [i \in 1..Len(at) |-> at[i].name])))

(***************************************************************************)
(* C4 as stated: on a Reader over the writer's output, lookup_by_uuid(u,a) *)
(* returns, for every (a, sym) the walker emitted for u, a Symbol with     *)
(* that sym and with object_uuid u, also when two symbols of u share a.    *)
(***************************************************************************)
C4_RoundTripEveryPair ==
    \A c \in DOMAIN call :
        Asked(c, "lookup_by_uuid") /\ Pristine =>
            \A sym \in Range(Emitted(call[c].args[1], call[c].args[2])) :
                /\ call[c].res.tag = "Ok"
                /\ call[c].res.val # None
                /\ call[c].res.val[1].symbol = sym
                /\ call[c].res.val[1].object_uuid = call[c].args[1]

(***************************************************************************)
(* C4 amended: lookup_by_uuid(u, a) returns a Symbol with object_uuid u    *)
(* and with the symbol of the first pair the walker emitted for u at a;    *)
(* later pairs at the same address are dropped by the writer.              *)
(***************************************************************************)
C4_RoundTripFirstPair ==
    \A c \in DOMAIN call :
        Asked(c, "lookup_by_uuid") /\ Pristine
            /\ Emitted(call[c].args[1], call[c].args[2]) # <<>> =>
                /\ call[c].res.tag = "Ok"
                /\ call[c].res.val # None
                /\ call[c].res.val[1].symbol
                       = Emitted(call[c].args[1], call[c].args[2])[1]
                /\ call[c].res.val[1].object_uuid = call[c].args[1]
                /\ call[c].res.val[1].addr = call[c].args[2]

(* Two different symbols were emitted at the address asked for *)
C4_SharedAddress ==
    \E c \in DOMAIN call :
        /\ Asked(c, "lookup_by_uuid") /\ Pristine
        /\ Len(Emitted(call[c].args[1], call[c].args[2])) > 1
        /\ Emitted(call[c].args[1], call[c].args[2])[2]
               # Emitted(call[c].args[1], call[c].args[2])[1]
        /\ call[c].res.tag = "Ok" /\ call[c].res.val # None
        /\ call[c].res.val[1].symbol
               = Emitted(call[c].args[1], call[c].args[2])[1]

InUuidTable(b, uuid) ==
    \E i \in 0..(Hdr(b).uuids_count - 1) : StoredUuid(b, i).uuid = uuid

(***************************************************************************)
(* C5: for every UUID u of a strictly sorted UUID table,                   *)
(* find_uuid_fuzzy(u.to_string()) returns Some(u); for a string that       *)
(* parses as a UUID that is not in the table it returns None, whatever the *)
(* tagged names are.                                                       *)
(***************************************************************************)
C5_FuzzyByUuid ==
    \A c \in DOMAIN call :
        Asked(c, "find_uuid_fuzzy") /\ UuidTableOk(Backing) =>
            /\ \A u \in UuidArgs :
                   InUuidTable(Backing, u)
                       /\ call[c].args[1] = uuid_to_string(u)
                   => call[c].res = Ok(Some(u))
            /\ \A u \in 0..255 :
                   parse_uuid(call[c].args[1]) = Some(u)
                       /\ ~InUuidTable(Backing, u)
                   => call[c].res = Ok(None)

(* The string parses as a UUID that is not in the table and is also a *)
(* tagged name of the file                                            *)
C5_ParsedButTagged ==
    \E c \in DOMAIN call :
        /\ Asked(c, "find_uuid_fuzzy") /\ UuidTableOk(Backing)
        /\ TaggedOk(Backing)
        /\ parse_uuid(call[c].args[1]) # None
        /\ ~InUuidTable(Backing, parse_uuid(call[c].args[1])[1])
        /\ FirstTagged(Backing, call[c].args[1]) # None
        /\ call[c].res = Ok(None)

(* The positions (from 1) of the tagged entries equal to `str` *)
TaggedAt(b, str) ==
    {i \in 1..Len(TaggedEntries(b)) : TaggedEntries(b)[i] = str}

TablesOk(b) == UuidTableOk(b) /\ TaggedOk(b)

(***************************************************************************)
(* C6 as stated: for every entry "name:arch" at position i of the tagged   *)
(* names, find_uuid_fuzzy("name:arch") returns Some of the UUID at         *)
(* position i of the UUID table, also when the string occurs at several    *)
(* positions.                                                              *)
(***************************************************************************)
C6_FuzzyEveryTagged ==
    \A c \in DOMAIN call :
        Asked(c, "find_uuid_fuzzy") /\ TablesOk(Backing)
            /\ LastColon(call[c].args[1]) # 0 =>
                \A i \in TaggedAt(Backing, call[c].args[1]) :
                    call[c].res = Ok(Some(StoredUuid(Backing, i - 1).uuid))

(***************************************************************************)
(* C6 amended: for a tagged entry "name:arch" that does not parse as a     *)
(* UUID, find_uuid_fuzzy("name:arch") returns Some of the UUID at the      *)
(* first position that holds this string; name may contain ':'.            *)
(***************************************************************************)
C6_FuzzyFirstTagged ==
    \A c \in DOMAIN call :
        Asked(c, "find_uuid_fuzzy") /\ TablesOk(Backing)
            /\ LastColon(call[c].args[1]) # 0
            /\ parse_uuid(call[c].args[1]) = None
            /\ TaggedAt(Backing, call[c].args[1]) # {} =>
                call[c].res = Ok(FirstTagged(Backing, call[c].args[1]))

(* A name with a ':' of its own is found among two entries *)
C6_ColonInName ==
    \E c \in DOMAIN call :
        /\ Asked(c, "find_uuid_fuzzy") /\ TablesOk(Backing)
        /\ parse_uuid(call[c].args[1]) = None
        /\ LastColon(SubSeq(call[c].args[1], 1,
                            LastColon(call[c].args[1]) - 1)) # 0
        /\ Len(TaggedEntries(Backing)) = 2
        /\ \E i \in TaggedAt(Backing, call[c].args[1]) :
               call[c].res = Ok(Some(StoredUuid(Backing, i - 1).uuid))

(***************************************************************************)
(* C7: lookup_by_object_name(name, arch, addr) is lookup_by_uuid(u, addr)  *)
(* for the UUID u at the position of the first tagged entry equal to       *)
(* "name:arch", and None when no entry equals it.                          *)
(***************************************************************************)
C7_ByNameIsByUuid ==
    \A c \in DOMAIN call :
        Asked(c, "lookup_by_object_name") /\ TaggedOk(Backing)
            /\ InFile(Backing, Hdr(Backing).uuids_start,
                      Hdr(Backing).uuids_count * IndexedUuidSize) =>
            call[c].res =
                IF FirstTagged(Backing, TaggedString(call[c].args[1],
                                                     call[c].args[2])) = None
                THEN Ok(None)
                ELSE lookup_by_uuid(Backing,
                         FirstTagged(Backing,
                             TaggedString(call[c].args[1],
                                          call[c].args[2]))[1],
                         call[c].args[3])

(* Two entries hold the string; the symbol found is of the first one's *)
(* UUID and the second one's UUID has nothing at the address           *)
C7_FirstOfTwo ==
    \E c \in DOMAIN call :
        /\ Asked(c, "lookup_by_object_name") /\ TablesOk(Backing)
        /\ TaggedAt(Backing, TaggedString(call[c].args[1], call[c].args[2]))
               = {1, 2}
        /\ call[c].res.tag = "Ok" /\ call[c].res.val # None
        /\ call[c].res.val[1].object_uuid = StoredUuid(Backing, 0).uuid
        /\ lookup_by_uuid(Backing, StoredUuid(Backing, 1).uuid,
                          call[c].args[3]) = Ok(None)

(* A Reader constructed anew over the bytes of the file *)
Fresh == load_memdb([buf |-> file, beyond |-> reader.val.backing.beyond])

(* What the operation returns when run alone on the fresh Reader *)
AloneOnFresh(op, args) ==
    Let(Fresh.val.backing, LAMBDA b :
    CASE op = "lookup_by_uuid" -> lookup_by_uuid(b, args[1], args[2])
      [] op = "lookup_by_object_name" ->
             lookup_by_object_name(b, args[1], args[2], args[3])
      [] op = "find_uuid" -> find_uuid(b, args[1], args[2])
      [] op = "find_uuid_fuzzy" -> find_uuid_fuzzy(b, args[1])
      [] op = "iter_symbols" -> iter_symbols(b, args[1]))

IsDecimal(text) == text # <<>> /\ \A i \in 1..Len(text) : text[i] \in AsciiDigit

RECURSIVE DecimalValue(_)
DecimalValue(text) ==
    IF text = <<>> THEN 0
    ELSE 10 * DecimalValue(SubSeq(text, 1, Len(text) - 1))
         + DigitValue(text[Len(text)])

RECURSIVE Significant(_)
Significant(text) ==
    IF Len(text) > 1 /\ Head(text) = "0" THEN Significant(Tail(text)) ELSE text

U32MaxText == <<"4", "2", "9", "4", "9", "6", "7", "2", "9", "5">>

(* The decimal number is at most u32::MAX: fewer digits, or as many and *)
(* not after it in the order of the digits                              *)
FitsU32(text) ==
    LET sig == Significant(text)
    IN  \/ Len(sig) < Len(U32MaxText)
        \/ /\ Len(sig) = Len(U32MaxText)
           /\ \A i \in 1..Len(sig) :
                  (\A j \in 1..(i - 1) : sig[j] = U32MaxText[j])
                      => DigitValue(sig[i]) <= DigitValue(U32MaxText[i])

KnownFolders == {Some("iOS DeviceSupport"), Some("tvOS DeviceSupport")}

PlatformOf(parent) ==
    IF parent = Some("iOS DeviceSupport") THEN "iOS" ELSE "tvOS"

(* The path is in a known folder and its name is MAJOR.MINOR[.PATCH] *)
(* (BUILD) with these decimal parts                                  *)
IsSdkPath(path, major, minor, patch, build) ==
    /\ path.parent \in KnownFolders
    /\ path.file_name = Format(major, minor, patch, build)
    /\ IsDecimal(major) /\ IsDecimal(minor)
    /\ patch # None => IsDecimal(patch[1])

PartsFitU32(major, minor, patch) ==
    /\ FitsU32(major) /\ FitsU32(minor)
    /\ patch # None => FitsU32(patch[1])

WithExtension(path, ext) == [path EXCEPT !.file_name = @ \o ext]

(***************************************************************************)
(* C9: for a path p whose file name is MAJOR.MINOR[.PATCH] (BUILD),        *)
(* from_path(p), from_path(p + ".zip") and from_path(p + ".memdb") all     *)
(* succeed and return the same SdkInfo.                                    *)
(***************************************************************************)
C9_ExtensionsOptional ==
    sdk_info.asked =>
        \A major, minor \in Numbers, patch \in Patches, build \in Builds :
            IsSdkPath(sdk_path, major, minor, patch, build)
                /\ PartsFitU32(major, minor, patch) =>
                /\ sdk_info.val # None
                /\ from_path(WithExtension(sdk_path, <<".", "z", "i", "p">>))
                       = sdk_info.val
                /\ from_path(WithExtension(sdk_path,
                                 <<".", "m", "e", "m", "d", "b">>))
                       = sdk_info.val

(***************************************************************************)
(* C10 as stated: for a path in a known platform folder whose file name is *)
(* MAJOR.MINOR[.PATCH] (BUILD) with decimal version parts, from_path       *)
(* returns the mapped platform, the integers of the parts (patch 0 when    *)
(* absent), the build and no flavour.                                      *)
(***************************************************************************)
C10_FieldsOfAnyDecimal ==
    sdk_info.asked =>
        \A major, minor \in Numbers, patch \in Patches, build \in Builds :
            IsSdkPath(sdk_path, major, minor, patch, build) =>
                /\ sdk_info.val # None
                /\ sdk_info.val[1] =
                       [name |-> PlatformOf(sdk_path.parent),
                        version_major |-> DecimalValue(major),
                        version_minor |-> DecimalValue(minor),
                        version_patchlevel |->
                            IF patch = None THEN 0
                            ELSE DecimalValue(patch[1]),
                        build |-> build,
                        flavour |-> None]

(***************************************************************************)
(* C10 amended: the same, for version parts that are each at most          *)
(* u32::MAX = 4294967295.                                                  *)
(***************************************************************************)
C10_FieldsOfU32Decimal ==
    sdk_info.asked =>
        \A major, minor \in Numbers, patch \in Patches, build \in Builds :
            IsSdkPath(sdk_path, major, minor, patch, build)
                /\ PartsFitU32(major, minor, patch) =>
                /\ sdk_info.val # None
                /\ sdk_info.val[1] =
                       [name |-> PlatformOf(sdk_path.parent),
                        version_major |-> DecimalValue(major),
                        version_minor |-> DecimalValue(minor),
                        version_patchlevel |->
                            IF patch = None THEN 0
                            ELSE DecimalValue(patch[1]),
                        build |-> build,
                        flavour |-> None]

(* A tvOS path without a patch part and with a leading zero *)
C10_NoPatchLeadingZero ==
    /\ sdk_info.asked
    /\ sdk_path.parent = Some("tvOS DeviceSupport")
    /\ sdk_path.file_name
           = Format(<<"1", "0">>, <<"0", "3">>, None, <<"1", "4", "C", "9", "3">>)
    /\ sdk_info.val # None
    /\ sdk_info.val[1].name = "tvOS"
    /\ sdk_info.val[1].version_minor = 3
    /\ sdk_info.val[1].version_patchlevel = 0

(***************************************************************************)
(* The SDK pattern, as the regular expression of from_path states it: a    *)
(* file name is digits "." digits, optionally "." digits, then whitespace, *)
(* "(" letters and digits ")" and optionally ".zip".                       *)
(***************************************************************************)
(* The cells from..(to - 1) of f are a run of the class that is not empty *)
Run(f, from, to, class) ==
    from < to /\ \A i \in from..(to - 1) : f[i] \in class

VersionEndsAt(f, p) ==
    \E a \in 2..(p - 1) :
        /\ f[a] = "."
        /\ Run(f, 1, a, UnicodeDigit)
        /\ \/ Run(f, a + 1, p, UnicodeDigit)
           \/ \E b \in (a + 2)..(p - 1) :
                  /\ f[b] = "."
                  /\ Run(f, a + 1, b, UnicodeDigit)
                  /\ Run(f, b + 1, p, UnicodeDigit)

BuildStartsAt(f, p) ==
    \E r \in (p + 1)..Len(f) :
        /\ f[r] = "("
        /\ Run(f, p, r, Whitespace)
        /\ \E q \in (r + 2)..Len(f) :
               /\ f[q] = ")"
               /\ Run(f, r + 1, q, Alnum)
               /\ SubSeq(f, q + 1, Len(f)) \in {<<>>, <<".", "z", "i", "p">>}

MatchesSdkPattern(f) ==
    \E p \in 1..Len(f) : VersionEndsAt(f, p) /\ BuildStartsAt(f, p)

(* Every field of the descriptor is filled *)
Filled(info) ==
    /\ info.name \in {"iOS", "tvOS"}
    /\ info.version_major \in Nat
    /\ info.version_minor \in Nat
    /\ info.version_patchlevel \in Nat
    /\ Run(info.build, 1, Len(info.build) + 1, Alnum)
    /\ info.flavour = None

Mismatch(path) ==
    path.parent \notin KnownFolders \/ ~MatchesSdkPattern(path.file_name)

(***************************************************************************)
(* C11: when the parent folder of the path is no known platform folder or  *)
(* the file name does not match the SDK pattern, from_path returns None    *)
(* and SdkProcessor::new fails with UnknownSdk, and no file-system         *)
(* operation has been made on the path; new returns nothing but a          *)
(* processor with every field of its SdkInfo filled or UnknownSdk.         *)
(***************************************************************************)
C11_UnknownSdk ==
    /\ sdk_info.asked /\ Mismatch(sdk_path) => sdk_info.val = None
    /\ sdk_info.asked /\ sdk_info.val # None => Filled(sdk_info.val[1])
    /\ sdk_proc # NotCalled =>
           /\ Mismatch(sdk_path) => sdk_proc = Err("UnknownSdk")
           /\ IF IsOk(sdk_proc)
              THEN /\ sdk_proc.val.path = sdk_path
                   /\ Filled(sdk_proc.val.info)
              ELSE sdk_proc = Err("UnknownSdk") /\ fs_ops = <<>>

(* A processor refused for a name of the pattern in a folder that is not *)
(* known, or in a known folder for a name that is not of the pattern     *)
C11_UnknownFolder ==
    /\ sdk_proc = Err("UnknownSdk")
    /\ fs_ops = <<>>
    /\ \/ /\ sdk_path.parent = Some("watchOS DeviceSupport")
          /\ MatchesSdkPattern(sdk_path.file_name)
       \/ /\ sdk_path.parent \in KnownFolders
          /\ ~MatchesSdkPattern(sdk_path.file_name)
          /\ sdk_path.file_name # <<>>

(***************************************************************************)
(* What a walk has returned, call by call.                                 *)
(***************************************************************************)
Walking == IsOk(walk.source)

Members == walk.source.val.members

IsObject(item) == item # None /\ IsOk(item[1])

IsError(item) == item # None /\ ~IsOk(item[1])

(* The source as SdkProcessor::objects returns it for these entries *)
SourceOver(members) ==
    [kind |-> walk.source.val.kind, members |-> members, idx |-> 0]

(* What the first n calls of next() return, from this source on *)
RECURSIVE Yields(_, _)
Yields(source, n) ==
    IF n = 0 THEN <<>>
    ELSE Let(objects_iter_next(source), LAMBDA r :
             <<r.item>> \o Yields(r.source, n - 1))

WithoutLoadErrors(members) ==
    SelectSeq(members, LAMBDA m : m.body # "notmacho")

(***************************************************************************)
(* C12: an entry whose parse fails with a load error gives no item and no  *)
(* error: what the calls of next() return for a bundle is what they return *)
(* for the bundle with these entries removed.                              *)
(***************************************************************************)
C12_LoadErrorsSkipped ==
    Walking =>
        /\ \A i \in 1..Len(walk.out) :
               walk.out[i] # Some(Err("MachO(LoadError)"))
        /\ walk.out = Yields(SourceOver(WithoutLoadErrors(Members)),
                             Len(walk.out))

(* Two objects were returned one after the other from around an entry *)
(* that is no Mach-O, and then the end                                *)
C12_SkippedBetweenObjects ==
    /\ Walking
    /\ Len(Members) = 3
    /\ Members[1].body = "macho"
    /\ Members[2].body = "notmacho"
    /\ Members[3].body = "macho"
    /\ Len(walk.out) = 3
    /\ IsObject(walk.out[1]) /\ IsObject(walk.out[2])
    /\ walk.out[3] = None

(* The entry gives an error that is no load error, if it is reached *)
Failing(m) ==
    \/ m.body \in {"malformed", "unreadable"}
    \/ walk.source.val.kind = "Zip" /\ m.body = "corrupt"
    \/ walk.source.val.kind = "Dir" /\ m.body \in {"walkerr", "nometa"}

(***************************************************************************)
(* C13: an error of the walk that is no load error is returned by next(),  *)
(* and once next() has returned an error no later call returns an object   *)
(* or an error.                                                            *)
(***************************************************************************)
C13_ErrorStopsIteration ==
    Walking =>
        /\ \A k \in 1..Len(walk.visited) :
               Failing(Members[walk.visited[k]]) =>
                   \E i \in 1..Len(walk.out) : IsError(walk.out[i])
        /\ \A i, j \in 1..Len(walk.out) :
               i < j /\ IsError(walk.out[i]) => walk.out[j] = None

(***************************************************************************)
(* C17: the walk of an archive of N members ends: next() returns None      *)
(* after at most N calls that return something else; the member index      *)
(* grows with every member visited, whatever the member gives; and an      *)
(* empty member gives no item.                                             *)
(***************************************************************************)
C17_ArchiveWalkEnds ==
    Walking /\ walk.source.val.kind = "Zip" =>
        /\ Len(walk.out) > Len(Members) => walk.out[Len(walk.out)] = None
        /\ \A i, j \in 1..Len(walk.visited) :
               i < j => walk.visited[i] < walk.visited[j]
        /\ Cardinality({i \in 1..Len(walk.out) : walk.out[i] # None})
               <= Cardinality({k \in 1..Len(Members) :
                                  Members[k].body \notin {"empty", "dir"}})

(***************************************************************************)
(* The logical name of a member's path, by the prefixes of the path.       *)
(***************************************************************************)
StartsWith(path, prefix) ==
    Len(path) >= Len(prefix) /\ SubSeq(path, 1, Len(prefix)) = prefix

SymbolsRoot == <<"Symbols", "/">>

(* The path after its first component and the "/" behind it, if any *)
AfterFirstComponent(path) ==
    IF \E i \in 1..Len(path) : path[i] = "/"
    THEN Some(SubSeq(path,
                     1 + CHOOSE i \in 1..Len(path) :
                             /\ path[i] = "/"
                             /\ \A j \in 1..(i - 1) : path[j] # "/",
                     Len(path)))
    ELSE None

LogicalName(path) ==
    IF StartsWith(path, SymbolsRoot)
    THEN SubSeq(path, Len(SymbolsRoot) + 1, Len(path))
    ELSE IF /\ AfterFirstComponent(path) # None
            /\ StartsWith(AfterFirstComponent(path)[1], SymbolsRoot)
         THEN SubSeq(AfterFirstComponent(path)[1], Len(SymbolsRoot) + 1,
                     Len(AfterFirstComponent(path)[1]))
         ELSE path

(***************************************************************************)
(* C18: the name an object of an archive is returned under is the path of  *)
(* its member with one leading prefix removed: the "Symbols/" at its start *)
(* or else the "X/Symbols/" at its start, X being its first component; a   *)
(* path with neither is the name.  The prefix is removed once.             *)
(***************************************************************************)
C18_PrefixStrippedOnce ==
    Walking /\ walk.source.val.kind = "Zip" =>
        \A i \in 1..Len(walk.out) :
            IsObject(walk.out[i]) =>
                walk.out[i][1].val.name = LogicalName(walk.out[i][1].val.object)

(* The member "Symbols/Symbols/a" was returned as "Symbols/a" *)
C18_SymbolsBelowSymbols ==
    /\ Walking /\ walk.source.val.kind = "Zip"
    /\ Len(walk.out) > 0
    /\ IsObject(walk.out[1])
    /\ walk.out[1][1].val.object = SymbolsRoot \o SymbolsRoot \o <<"a">>
    /\ walk.out[1][1].val.name = SymbolsRoot \o <<"a">>

(***************************************************************************)
(* The architectures of an object, by its variants.                        *)
(***************************************************************************)
SymbolsAsked == IsOk(obj.file) /\ obj.symbols # NotCalled

KnownFlag(flag) == get_arch_from_flag(flag) # None

HasVariant(object, flag) ==
    \E i \in 1..Len(object.variants) :
        <<object.variants[i].cputype, object.variants[i].cpusubtype>>
            = get_arch_from_flag(flag)[1]

(***************************************************************************)
(* C14: Object::symbols fails with UnknownArchitecture exactly when the    *)
(* flag is not in the architecture table, and with MissingArchitecture     *)
(* exactly when the flag is in the table and the object has no variant of  *)
(* its (cputype, cpusubtype); an object that is neither a FAT nor a Mach-O *)
(* file gives MissingArchitecture for every flag of the table.             *)
(***************************************************************************)
C14_ArchErrors ==
    SymbolsAsked =>
        /\ obj.symbols = Err("UnknownArchitecture") <=> ~KnownFlag(obj.arch)
        /\ obj.symbols = Err("MissingArchitecture")
               <=> (/\ KnownFlag(obj.arch)
                    /\ ~HasVariant(obj.file.val, obj.arch))
        /\ (/\ obj.file.val.ofile.kind \notin {"FatFile", "MachFile"}
            /\ KnownFlag(obj.arch))
               => obj.symbols = Err("MissingArchitecture")

(***************************************************************************)
(* The symbols of a table that are defined, named, not external and in the *)
(* text section of the text segment, as (address, name) pairs in the order *)
(* of the table.                                                           *)
(***************************************************************************)
InTextSection(sym) ==
    /\ sym.kind = "Defined"
    /\ sym.name # None
    /\ sym.external = FALSE
    /\ sym.section = Some([segname |-> SEG_TEXT, sectname |-> SECT_TEXT])

RECURSIVE TextPairs(_)
TextPairs(symtab) ==
    IF symtab = <<>> THEN <<>>
    ELSE (IF InTextSection(Head(symtab))
          THEN <<Some(<<Head(symtab).entry, Head(symtab).name[1]>>)>>
          ELSE <<>>) \o TextPairs(Tail(symtab))

Iterating == IsOk(obj.symbols) /\ obj.iter # None

IteratedTable ==
    IF /\ obj.symbols.val.ofile.kind = "MachFile"
       /\ obj.symbols.val.ofile.symtab # None
    THEN obj.symbols.val.ofile.symtab[1]
    ELSE <<>>

EntryOf(b, uuid) ==
    CHOOSE i \in 0..(Hdr(b).uuids_count - 1) : StoredUuid(b, i).uuid = uuid

ItemsOf(b, uuid) ==
    IF InUuidTable(b, uuid)
    THEN [j \in 1..ItemCount(b, StoredUuid(b, EntryOf(b, uuid)).idx) |->
             StoredItem(b, StoredUuid(b, EntryOf(b, uuid)).idx, j - 1)]
    ELSE <<>>

(* Caller c holds an iterator after the step, made or advanced by it *)
IterStep(c) ==
    /\ phase = "open" /\ phase' = "open"
    /\ call'[c].op = "iter_symbols"
    /\ call'[c].iter # None
    /\ call'[c] # call[c]

(***************************************************************************)
(* C16: over a file whose UUID table is sorted, iter_symbols(uuid) gives   *)
(* an iterator at the first index item of the UUID's variant; each call of *)
(* next before the end returns the result for the next stored item -- on a *)
(* well-formed file a symbol, and every symbol given carries that item's   *)
(* address and the UUID asked for -- and moves on by one item; after as    *)
(* many calls as there are items every call gives None.  For a UUID the    *)
(* table does not hold iter_symbols gives an iterator, not an error, whose *)
(* first call of next gives None.                                          *)
(***************************************************************************)
C16_IterInStoredOrder ==
    [][\A c \in DOMAIN call :
        /\ (/\ phase = "open" /\ phase' = "open"
            /\ call[c] = Idle /\ call'[c].op = "iter_symbols"
            /\ UuidTableOk(Backing)
            /\ ~InUuidTable(Backing, call'[c].args[1]))
               => call'[c].iter # None
        /\ (IterStep(c) /\ UuidTableOk(Backing)) =>
            IF call[c].iter = None
            THEN /\ call'[c].iter[1].pos = 0
                 /\ call'[c].iter[1].uuid = call'[c].args[1]
                 /\ call'[c].res = Ok(None)
            ELSE IF call[c].iter[1].pos
                        < Len(ItemsOf(Backing, call[c].args[1]))
            THEN /\ call'[c].iter[1].pos = call[c].iter[1].pos + 1
                 /\ call'[c].res.tag \notin {"End", "Panic", "Segv"}
                 /\ WellFormed(Backing) => IsOk(call'[c].res)
                 /\ IsOk(call'[c].res) =>
                        /\ call'[c].res.val # None
                        /\ call'[c].res.val[1].addr
                               = ItemsOf(Backing, call[c].args[1])
                                     [call[c].iter[1].pos + 1].addr
                        /\ call'[c].res.val[1].object_uuid = call[c].args[1]
            ELSE /\ call'[c].res = Err("End")
                 /\ call'[c].iter = call[c].iter]_vars

(***************************************************************************)
(* C19: whatever the words passed, get_data and get_slice return BadMemDb  *)
(* or a view of exactly the elements asked for that ends at or before the  *)
(* end of the buffer.                                                      *)
(***************************************************************************)
C19_ViewsWithinFile ==
    view.op # "none" =>
        \/ view.res = Err("BadMemDb")
        \/ /\ IsOk(view.res)
           /\ view.res.val.ptr = view.args[1]
           /\ view.res.val.len = view.args[2]
           /\ view.res.val.ptr + view.res.val.len * view.args[3] <= view.len

(***************************************************************************)
(* C20: on a file the reader accepted every lookup returns -- a value, no  *)
(* value or BadMemDb -- and none ends in a panic or in a read of memory    *)
(* outside the region.                                                     *)
(***************************************************************************)
C20_LookupsReturn ==
    \A c \in DOMAIN call :
        (phase = "open" /\ call[c] # Idle) =>
            call[c].res.tag \in {"Ok", "End", "BadMemDb"}

(***************************************************************************)
(* The image a variant was extracted from: the file itself, or the child   *)
(* of the container that is the variant's in the order of the children     *)
(* that are Mach-O files.                                                  *)
(***************************************************************************)
MachChildren(ofile) ==
    SelectSeq(ofile.files, LAMBDA child : child.file.kind = "MachFile")

ImageOf(object, i) ==
    IF object.ofile.kind = "FatFile"
    THEN [ofile |-> MachChildren(object.ofile)[i].file,
          cursor |-> MachChildren(object.ofile)[i].arch.offset]
    ELSE [ofile |-> object.ofile, cursor |-> 0]

(***************************************************************************)
(* C21: for every variant v of an object, symbols(v.arch()) succeeds and   *)
(* gives the symbols of the image v was extracted from.                    *)
(***************************************************************************)
C21_VariantsHaveSymbols ==
    SymbolsAsked =>
        \A i \in 1..Len(obj.file.val.variants) :
            obj.arch = Variant_arch(obj.file.val.variants[i]) =>
                /\ IsOk(obj.symbols)
                /\ obj.symbols.val = ImageOf(obj.file.val, i)

====
